---- MODULE Spec2Model ----
(***************************************************************************)
(* Model of the chrono-cli project detector (pkg/detector/detector.go).    *)
(*                                                                         *)
(* A directory tree is a function from absolute path strings to file       *)
(* entries.  A regular file's content is kept as the sequence of its       *)
(* lines, i.e. the content split at "\n"; every directive the detector     *)
(* searches for is free of "\n", so a substring search over the content    *)
(* is a search over the lines.  Lines are shorter than bufio's             *)
(* MaxScanTokenSize (64 KiB), so bufio.Scanner delivers every line.        *)
(***************************************************************************)
EXTENDS Integers, Sequences, FiniteSets, TLC

(***************************************************************************)
(* Go's strings package, on TLA+ strings.                                  *)
(***************************************************************************)
Char(s, i) == SubSeq(s, i, i)

HasPrefix(s, p) == Len(s) >= Len(p) /\ SubSeq(s, 1, Len(p)) = p

Contains(s, sub) ==
    \E i \in 1..(Len(s) - Len(sub) + 1) : SubSeq(s, i, i + Len(sub) - 1) = sub

\* strings.Index for a one-character separator; 0 when absent
Index(s, c) ==
    IF \E i \in 1..Len(s) : Char(s, i) = c
    THEN CHOOSE i \in 1..Len(s) :
            Char(s, i) = c /\ \A j \in 1..(i - 1) : Char(s, j) # c
    ELSE 0

\* strings.Trim(s, cutset), cutset given as a set of characters
Trim(s, cutset) ==
    LET keep == {i \in 1..Len(s) : Char(s, i) \notin cutset}
    IN  IF keep = {} THEN ""
        ELSE LET lo == CHOOSE i \in keep : \A j \in keep : i <= j
                 hi == CHOOSE i \in keep : \A j \in keep : j <= i
             IN  SubSeq(s, lo, hi)

Spaces == {" ", "\t", "\r", "\n"}

TrimSpace(s) == Trim(s, Spaces)

UpperChars == "ABCDEFGHIJKLMNOPQRSTUVWXYZ"
LowerChars == "abcdefghijklmnopqrstuvwxyz"

LowerChar(c) ==
    LET k == Index(UpperChars, c) IN IF k = 0 THEN c ELSE Char(LowerChars, k)

RECURSIVE ToLower(_)
ToLower(s) ==
    IF s = "" THEN "" ELSE LowerChar(Char(s, 1)) \o ToLower(SubSeq(s, 2, Len(s)))

\* strings.SplitN(s, sep, 2) for a one-character separator
SplitN2(s, sep) ==
    LET k == Index(s, sep)
    IN  IF k = 0 THEN <<s>> ELSE <<SubSeq(s, 1, k - 1), SubSeq(s, k + 1, Len(s))>>

\* strings.Contains(string(content), sub) for a sub without "\n"
ContentContains(lines, sub) == \E i \in 1..Len(lines) : Contains(lines[i], sub)

\* filepath.Join of two elements: empty elements are ignored
Join(a, b) == IF b = "" THEN a ELSE IF a = "" THEN b ELSE a \o "/" \o b

(***************************************************************************)
(* The file system seen by os.Stat, os.ReadFile and os.Open.               *)
(***************************************************************************)
DirEntry == [kind |-> "dir", lines |-> <<>>]
\* a file that os.Stat finds and os.ReadFile / os.Open cannot read
NoPermFile == [kind |-> "noperm", lines |-> <<>>]
File(ls) == [kind |-> "file", lines |-> ls]

\* os.Stat(path) succeeds
\* fileExists dropping the error of os.Stat
fileExists_ignoringError(t, path) == TRUE

fileExists(t, path) == path \in DOMAIN t

\* os.ReadFile(path) / os.Open(path) followed by a scan deliver the lines
Readable(t, path) == path \in DOMAIN t /\ t[path].kind = "file"

(***************************************************************************)
(* Helper functions of the detector.                                       *)
(***************************************************************************)
NoDeps == [n \in {} |-> ""]

\* one iteration of the line loop of parseDependencies: st = [inDeps, deps]
parseLine(st, line) ==
    LET lineStr == TrimSpace(line)
        closes  == st.inDeps /\ (HasPrefix(lineStr, "}") \/ HasPrefix(lineStr, "]"))
        inDeps  == st.inDeps /\ ~closes
        parts   == SplitN2(lineStr, ":")
        name    == Trim(TrimSpace(parts[1]), {"\"", "'"})
        version == Trim(TrimSpace(parts[2]), {"\"", "'", ","})
    IN  IF \/ HasPrefix(lineStr, "\"dependencies\":")
           \/ HasPrefix(lineStr, "'dependencies':")
           \/ HasPrefix(lineStr, "\"devDependencies\":")
           \/ HasPrefix(lineStr, "'devDependencies':")
        THEN [st EXCEPT !.inDeps = TRUE]
        ELSE IF inDeps /\ Len(parts) = 2 /\ name # ""
        THEN [inDeps |-> inDeps,
              deps   |-> [n \in DOMAIN st.deps \cup {name} |->
                            IF n = name THEN version ELSE st.deps[n]]]
        ELSE [st EXCEPT !.inDeps = inDeps]

RECURSIVE parseFrom(_, _, _)
parseFrom(lines, i, st) ==
    IF i > Len(lines) THEN st.deps
    ELSE parseFrom(lines, i + 1, parseLine(st, lines[i]))

parseDependencies(lines) == parseFrom(lines, 1, [inDeps |-> FALSE, deps |-> NoDeps])

hasDep(deps, name) ==
    \/ name \in DOMAIN deps
    \/ \E dep \in DOMAIN deps : HasPrefix(dep, name)

\* isValidDockerfile satisfied by FROM alone
isValidDockerfile_fromOnly(lines) == ContentContains(lines, "FROM")

isValidDockerfile(lines) ==
    /\ ContentContains(lines, "FROM")
    /\ \/ ContentContains(lines, "EXPOSE")
       \/ ContentContains(lines, "CMD")
       \/ ContentContains(lines, "ENTRYPOINT")

\* findFrom giving up at the first candidate that exists
RECURSIVE findFrom_stopAtExisting(_, _, _, _)
findFrom_stopAtExisting(t, rootDir, paths, i) ==
    IF i > Len(paths) THEN [path |-> "", ok |-> FALSE]
    ELSE LET fullPath == Join(rootDir, paths[i])
         IN  IF fileExists(t, fullPath)
             THEN IF Readable(t, fullPath) /\ isValidDockerfile(t[fullPath].lines)
                  THEN [path |-> paths[i], ok |-> TRUE]
                  ELSE [path |-> "", ok |-> FALSE]
             ELSE findFrom_stopAtExisting(t, rootDir, paths, i + 1)

RECURSIVE findFrom(_, _, _, _)
findFrom(t, rootDir, paths, i) ==
    IF i > Len(paths) THEN [path |-> "", ok |-> FALSE]
    ELSE LET fullPath == Join(rootDir, paths[i])
         IN  IF /\ fileExists(t, fullPath)
                /\ Readable(t, fullPath)
                /\ isValidDockerfile(t[fullPath].lines)
             THEN [path |-> paths[i], ok |-> TRUE]
             ELSE findFrom(t, rootDir, paths, i + 1)

findDockerfile(t, rootDir, paths) == findFrom(t, rootDir, paths, 1)

NoEnv == [k \in {} |-> ""]

\* isSecretKey without the lowercasing of the key
isSecretKey_caseSensitive(key) ==
    \/ Contains(key, "secret")
    \/ Contains(key, "password")
    \/ Contains(key, "key")

\* the test that withholds a key from the result
isSecretKey(key) ==
    \/ Contains(ToLower(key), "secret")
    \/ Contains(ToLower(key), "password")
    \/ Contains(ToLower(key), "key")

\* envValueFor storing the text read from the file
envValueFor_raw(value) == value

\* the value stored for a recorded key
envValueFor(value) == "[VALUE]"

\* body of the scanner loop of detectEnvVars
scanEnvLine(envVars, text) ==
    LET line  == TrimSpace(text)
        parts == SplitN2(line, "=")
        key   == TrimSpace(parts[1])
    IN  IF line = "" \/ HasPrefix(line, "#") THEN envVars
        ELSE IF Len(parts) = 2 /\ ~isSecretKey(key)
        THEN [k \in DOMAIN envVars \cup {key} |->
                IF k = key THEN envValueFor(parts[2]) ELSE envVars[k]]
        ELSE envVars

RECURSIVE scanEnvLines(_, _, _)
scanEnvLines(lines, i, envVars) ==
    IF i > Len(lines) THEN envVars
    ELSE scanEnvLines(lines, i + 1, scanEnvLine(envVars, lines[i]))

\* envFrom leaving the loop after the first file it could open
RECURSIVE envFrom_firstFileOnly(_, _, _, _, _)
envFrom_firstFileOnly(t, rootDir, paths, i, envVars) ==
    IF i > Len(paths) THEN envVars
    ELSE LET fullPath == Join(rootDir, paths[i])
         IN  IF ~Readable(t, fullPath)
             THEN envFrom_firstFileOnly(t, rootDir, paths, i + 1, envVars)
             ELSE scanEnvLines(t[fullPath].lines, 1, envVars)

RECURSIVE envFrom(_, _, _, _, _)
envFrom(t, rootDir, paths, i, envVars) ==
    IF i > Len(paths) THEN envVars
    ELSE LET fullPath == Join(rootDir, paths[i])
         IN  IF ~Readable(t, fullPath)
             THEN envFrom(t, rootDir, paths, i + 1, envVars)
             ELSE envFrom(t, rootDir, paths, i + 1,
                          scanEnvLines(t[fullPath].lines, 1, envVars))

detectEnvVars(t, rootDir, paths) == envFrom(t, rootDir, paths, 1, NoEnv)

(***************************************************************************)
(* Sub-detectors.  A *TechStack is a record; the nil pointer is Nil.       *)
(***************************************************************************)
Nil == [nil |-> TRUE]

TechStack(framework, language, version, port, docker, buildCmd, startCmd, envVars) ==
    [nil           |-> FALSE,
     Framework     |-> framework,
     Language      |-> language,
     Version       |-> version,
     Port          |-> port,
     HasDockerfile |-> docker.ok,
     Dockerfile    |-> docker.path,
     BuildCmd      |-> buildCmd,
     StartCmd      |-> startCmd,
     EnvVars       |-> envVars]

FrontendDockerfiles == <<"frontend/Dockerfile", "Dockerfile", "Dockerfile.frontend">>
FrontendEnvFiles == <<"frontend/.env", "frontend/.env.local", ".env", ".env.local">>

\* frontendFramework with the react case tested before the next case
frontendFramework_reactFirst(deps) ==
    IF hasDep(deps, "react") \/ hasDep(deps, "react-dom")
    THEN [framework |-> "react", port |-> 3000]
    ELSE IF hasDep(deps, "next") THEN [framework |-> "nextjs", port |-> 3000]
    ELSE IF hasDep(deps, "vue") THEN [framework |-> "vue", port |-> 5173]
    ELSE IF hasDep(deps, "vite") THEN [framework |-> "vite", port |-> 5173]
    ELSE IF hasDep(deps, "svelte") THEN [framework |-> "svelte", port |-> 5173]
    ELSE [framework |-> "", port |-> 3000]

\* the framework switch of detectFrontend; framework "" is the default branch
frontendFramework(deps) ==
    IF hasDep(deps, "next") THEN [framework |-> "nextjs", port |-> 3000]
    ELSE IF hasDep(deps, "react") \/ hasDep(deps, "react-dom")
    THEN [framework |-> "react", port |-> 3000]
    ELSE IF hasDep(deps, "vue") THEN [framework |-> "vue", port |-> 5173]
    ELSE IF hasDep(deps, "vite") THEN [framework |-> "vite", port |-> 5173]
    ELSE IF hasDep(deps, "svelte") THEN [framework |-> "svelte", port |-> 5173]
    ELSE [framework |-> "", port |-> 3000]

frontendLanguage(deps) ==
    IF \/ hasDep(deps, "typescript")
       \/ hasDep(deps, "@types/react")
       \/ hasDep(deps, "@types/node")
    THEN "typescript" ELSE "javascript"

detectFrontend(t, rootDir) ==
    LET pkgPath == Join(rootDir, "package.json")
        deps    == parseDependencies(t[pkgPath].lines)
        fw      == frontendFramework(deps)
    IN  IF ~fileExists(t, pkgPath) THEN Nil
        ELSE IF ~Readable(t, pkgPath) THEN Nil
        ELSE IF fw.framework = "" THEN Nil
        ELSE TechStack(fw.framework, frontendLanguage(deps), "", fw.port,
                       findDockerfile(t, rootDir, FrontendDockerfiles),
                       "npm run build", "npm start",
                       detectEnvVars(t, rootDir, FrontendEnvFiles))

BackendEnvFiles == <<"backend/.env", ".env">>

detectGoBackend(t, rootDir) ==
    TechStack("gin", "go", "1.22", 8080,
              findDockerfile(t, rootDir,
                  <<"backend/Dockerfile", "Dockerfile", "Dockerfile.backend">>),
              "go build -o bin/server ./cmd/server", "./bin/server",
              detectEnvVars(t, rootDir, BackendEnvFiles))

detectPythonBackend(t, rootDir) ==
    TechStack("fastapi", "python", "", 8000,
              findDockerfile(t, rootDir, <<"backend/Dockerfile", "Dockerfile">>),
              "pip install -r requirements.txt",
              "uvicorn main:app --host 0.0.0.0 --port 8000",
              detectEnvVars(t, rootDir, BackendEnvFiles))

detectNodeBackend(t, rootDir, deps) ==
    TechStack(IF hasDep(deps, "fastify") THEN "fastify"
              ELSE IF hasDep(deps, "koa") THEN "koa" ELSE "express",
              "nodejs", "", 8080,
              findDockerfile(t, rootDir,
                  <<"backend/Dockerfile", "api/Dockerfile", "Dockerfile">>),
              "npm run build", "npm start",
              detectEnvVars(t, rootDir, BackendEnvFiles))

\* detectBackend with the Node.js probe tried before the manifest files
detectBackend_nodeFirst(t, rootDir) ==
    LET pkgPath == Join(rootDir, "package.json")
        deps    == parseDependencies(t[pkgPath].lines)
    IN  IF /\ Readable(t, pkgPath)
           /\ \/ hasDep(deps, "express")
              \/ hasDep(deps, "fastify")
              \/ hasDep(deps, "koa")
        THEN detectNodeBackend(t, rootDir, deps)
        ELSE IF fileExists(t, Join(rootDir, "go.mod")) THEN detectGoBackend(t, rootDir)
        ELSE IF fileExists(t, Join(rootDir, "requirements.txt"))
        THEN detectPythonBackend(t, rootDir)
        ELSE IF fileExists(t, Join(rootDir, "pyproject.toml"))
        THEN detectPythonBackend(t, rootDir)
        ELSE Nil

detectBackend(t, rootDir) ==
    LET pkgPath == Join(rootDir, "package.json")
        deps    == parseDependencies(t[pkgPath].lines)
    IN  IF fileExists(t, Join(rootDir, "go.mod")) THEN detectGoBackend(t, rootDir)
        ELSE IF fileExists(t, Join(rootDir, "requirements.txt"))
        THEN detectPythonBackend(t, rootDir)
        ELSE IF fileExists(t, Join(rootDir, "pyproject.toml"))
        THEN detectPythonBackend(t, rootDir)
        ELSE IF /\ Readable(t, pkgPath)
                /\ \/ hasDep(deps, "express")
                   \/ hasDep(deps, "fastify")
                   \/ hasDep(deps, "koa")
        THEN detectNodeBackend(t, rootDir, deps)
        ELSE Nil

(***************************************************************************)
(* Monorepo scan.                                                          *)
(***************************************************************************)
\* frontendDirs with web probed before frontend
frontendDirs_webFirst == <<"web", "frontend", "client", "ui">>

frontendDirs == <<"frontend", "web", "client", "ui">>
backendDirs == <<"backend", "api", "server", "services">>

\* withDirPrefix leaving the path relative to the subdirectory
withDirPrefix_none(stack, dir) == stack

\* f.Dockerfile = filepath.Join(dir, f.Dockerfile)
\* withDirPrefix also marking the stack as having a Dockerfile
withDirPrefix_flagsFound(stack, dir) ==
    [stack EXCEPT !.Dockerfile = Join(dir, @), !.HasDockerfile = TRUE]

withDirPrefix(stack, dir) == [stack EXCEPT !.Dockerfile = Join(dir, @)]

RECURSIVE scanFrontendDirs(_, _, _)
scanFrontendDirs(t, rootDir, i) ==
    IF i > Len(frontendDirs) THEN Nil
    ELSE LET dir     == frontendDirs[i]
             dirPath == Join(rootDir, dir)
             f       == detectFrontend(t, dirPath)
         IN  IF fileExists(t, dirPath) /\ f # Nil
             THEN withDirPrefix(f, dir)
             ELSE scanFrontendDirs(t, rootDir, i + 1)

RECURSIVE scanBackendDirs(_, _, _)
scanBackendDirs(t, rootDir, i) ==
    IF i > Len(backendDirs) THEN Nil
    ELSE LET dir     == backendDirs[i]
             dirPath == Join(rootDir, dir)
             b       == detectBackend(t, dirPath)
         IN  IF fileExists(t, dirPath) /\ b # Nil
             THEN withDirPrefix(b, dir)
             ELSE scanBackendDirs(t, rootDir, i + 1)

detectMonorepo(t, rootDir) ==
    [frontend |-> scanFrontendDirs(t, rootDir, 1),
     backend  |-> scanBackendDirs(t, rootDir, 1)]

(***************************************************************************)
(* Middleware detection.                                                   *)
(***************************************************************************)
checkPrismaPostgres(t, rootDir) ==
    LET schemaPath == Join(rootDir, "prisma/schema.prisma")
    IN  /\ Readable(t, schemaPath)
        /\ ContentContains(t[schemaPath].lines, "provider = \"postgresql\"")

detectMiddleware(t, rootDir) ==
    LET pkgPath == Join(rootDir, "package.json")
        hasPkg  == Readable(t, pkgPath)
        deps    == parseDependencies(t[pkgPath].lines)
        goPath  == Join(rootDir, "go.mod")
        hasGo   == Readable(t, goPath)
        goMod   == t[goPath].lines
        reqPath == Join(rootDir, "requirements.txt")
        hasReq  == Readable(t, reqPath)
        req     == t[reqPath].lines
    IN  [MongoDB |->
            \/ /\ hasPkg
               /\ \/ hasDep(deps, "mongodb")
                  \/ hasDep(deps, "mongoose")
                  \/ hasDep(deps, "@prisma/client")
               /\ ~checkPrismaPostgres(t, rootDir)
            \/ hasGo /\ ContentContains(goMod, "go.mongodb.org/mongo-driver")
            \/ hasReq /\ (ContentContains(req, "pymongo") \/ ContentContains(req, "motor")),
         Redis |->
            \/ /\ hasPkg
               /\ \/ hasDep(deps, "redis")
                  \/ hasDep(deps, "ioredis")
                  \/ hasDep(deps, "@redis/client")
            \/ /\ hasGo
               /\ \/ ContentContains(goMod, "github.com/redis/go-redis")
                  \/ ContentContains(goMod, "github.com/go-redis/redis")
            \/ hasReq /\ (ContentContains(req, "redis") \/ ContentContains(req, "aioredis")),
         Postgres |->
            \/ /\ hasPkg
               /\ \/ hasDep(deps, "pg")
                  \/ hasDep(deps, "postgres")
                  \/ hasDep(deps, "prisma")
               /\ checkPrismaPostgres(t, rootDir)
            \/ /\ hasGo
               /\ \/ ContentContains(goMod, "github.com/lib/pq")
                  \/ ContentContains(goMod, "github.com/jackc/pgx")
            \/ hasReq /\ (ContentContains(req, "psycopg2") \/ ContentContains(req, "asyncpg")),
         MySQL |-> FALSE]

(***************************************************************************)
(* The paths each function hands to os.Stat, os.ReadFile or os.Open.       *)
(***************************************************************************)
\* findDockerfile stats the candidates up to the one it returns
probesDockerfile(t, rootDir, paths) ==
    LET hit  == findDockerfile(t, rootDir, paths)
        last == IF hit.ok
                THEN CHOOSE i \in 1..Len(paths) :
                        paths[i] = hit.path /\ \A j \in 1..(i - 1) : paths[j] # hit.path
                ELSE Len(paths)
    IN  {Join(rootDir, paths[i]) : i \in 1..last}

\* detectEnvVars opens every candidate
probesEnvVars(rootDir, paths) == {Join(rootDir, paths[i]) : i \in 1..Len(paths)}

\* detectFrontend gets past its three early returns
findsFrontend(t, rootDir) ==
    LET pkgPath == Join(rootDir, "package.json")
    IN  /\ fileExists(t, pkgPath)
        /\ Readable(t, pkgPath)
        /\ frontendFramework(parseDependencies(t[pkgPath].lines)).framework # ""

probesFrontend(t, rootDir) ==
    {Join(rootDir, "package.json")}
        \cup IF ~findsFrontend(t, rootDir) THEN {}
             ELSE probesDockerfile(t, rootDir, FrontendDockerfiles)
                      \cup probesEnvVars(rootDir, FrontendEnvFiles)

\* detectBackend finds express, fastify or koa in a readable package.json
findsNodeBackend(t, rootDir) ==
    LET pkgPath == Join(rootDir, "package.json")
        deps    == parseDependencies(t[pkgPath].lines)
    IN  /\ Readable(t, pkgPath)
        /\ \/ hasDep(deps, "express")
           \/ hasDep(deps, "fastify")
           \/ hasDep(deps, "koa")

\* detectBackend returns a stack
findsBackend(t, rootDir) ==
    \/ fileExists(t, Join(rootDir, "go.mod"))
    \/ fileExists(t, Join(rootDir, "requirements.txt"))
    \/ fileExists(t, Join(rootDir, "pyproject.toml"))
    \/ findsNodeBackend(t, rootDir)

probesBackend(t, rootDir) ==
    LET goMod     == Join(rootDir, "go.mod")
        reqTxt    == Join(rootDir, "requirements.txt")
        pyProject == Join(rootDir, "pyproject.toml")
        pkgPath   == Join(rootDir, "package.json")
        env       == probesEnvVars(rootDir, BackendEnvFiles)
    IN  IF fileExists(t, goMod)
        THEN {goMod} \cup env
                 \cup probesDockerfile(t, rootDir,
                          <<"backend/Dockerfile", "Dockerfile", "Dockerfile.backend">>)
        ELSE IF fileExists(t, reqTxt)
        THEN {goMod, reqTxt} \cup env
                 \cup probesDockerfile(t, rootDir, <<"backend/Dockerfile", "Dockerfile">>)
        ELSE IF fileExists(t, pyProject)
        THEN {goMod, reqTxt, pyProject} \cup env
                 \cup probesDockerfile(t, rootDir, <<"backend/Dockerfile", "Dockerfile">>)
        ELSE {goMod, reqTxt, pyProject, pkgPath}
                 \cup IF ~findsNodeBackend(t, rootDir) THEN {}
                      ELSE env \cup probesDockerfile(t, rootDir,
                                        <<"backend/Dockerfile", "api/Dockerfile", "Dockerfile">>)

\* probesFrontendDirs with a sub-detector that scans its own candidate
\* directories when it finds no stack
RECURSIVE probesFrontendDirs_nested(_, _, _)
probesFrontendDirs_nested(t, rootDir, i) ==
    IF i > Len(frontendDirs) THEN {}
    ELSE LET dirPath == Join(rootDir, frontendDirs[i])
         IN  IF ~fileExists(t, dirPath)
             THEN {dirPath} \cup probesFrontendDirs_nested(t, rootDir, i + 1)
             ELSE IF findsFrontend(t, dirPath)
             THEN {dirPath} \cup probesFrontend(t, dirPath)
             ELSE {dirPath} \cup probesFrontend(t, dirPath)
                      \cup UNION {{Join(dirPath, frontendDirs[k])}
                                      \cup probesFrontend(t, Join(dirPath, frontendDirs[k])) :
                                      k \in 1..Len(frontendDirs)}
                      \cup probesFrontendDirs_nested(t, rootDir, i + 1)

\* the frontend loop of detectMonorepo, up to the directory that gives a stack
RECURSIVE probesFrontendDirs(_, _, _)
probesFrontendDirs(t, rootDir, i) ==
    IF i > Len(frontendDirs) THEN {}
    ELSE LET dirPath == Join(rootDir, frontendDirs[i])
         IN  IF ~fileExists(t, dirPath)
             THEN {dirPath} \cup probesFrontendDirs(t, rootDir, i + 1)
             ELSE IF findsFrontend(t, dirPath)
             THEN {dirPath} \cup probesFrontend(t, dirPath)
             ELSE {dirPath} \cup probesFrontend(t, dirPath)
                      \cup probesFrontendDirs(t, rootDir, i + 1)

\* the backend loop of detectMonorepo
RECURSIVE probesBackendDirs(_, _, _)
probesBackendDirs(t, rootDir, i) ==
    IF i > Len(backendDirs) THEN {}
    ELSE LET dirPath == Join(rootDir, backendDirs[i])
         IN  IF ~fileExists(t, dirPath)
             THEN {dirPath} \cup probesBackendDirs(t, rootDir, i + 1)
             ELSE IF findsBackend(t, dirPath)
             THEN {dirPath} \cup probesBackend(t, dirPath)
             ELSE {dirPath} \cup probesBackend(t, dirPath)
                      \cup probesBackendDirs(t, rootDir, i + 1)

probesMonorepo(t, rootDir) ==
    probesFrontendDirs(t, rootDir, 1) \cup probesBackendDirs(t, rootDir, 1)

\* detectMiddleware reads the three manifests, and the schema file when a
\* dependency of the MongoDB or of the Postgres group is declared
probesMiddleware(t, rootDir) ==
    LET pkgPath == Join(rootDir, "package.json")
        deps    == parseDependencies(t[pkgPath].lines)
    IN  {pkgPath, Join(rootDir, "go.mod"), Join(rootDir, "requirements.txt")}
            \cup IF /\ Readable(t, pkgPath)
                    /\ \E name \in {"mongodb", "mongoose", "@prisma/client",
                                    "pg", "postgres", "prisma"} : hasDep(deps, name)
                 THEN {Join(rootDir, "prisma/schema.prisma")}
                 ELSE {}

(***************************************************************************)
(* Detect.                                                                 *)
(***************************************************************************)
\* projectType with the single-sided cases tested before the fullstack case
projectType_singleFirst(frontend, backend) ==
    IF frontend # Nil THEN "frontend"
    ELSE IF backend # Nil THEN "backend"
    ELSE IF frontend # Nil /\ backend # Nil THEN "fullstack"
    ELSE "unknown"

projectType(frontend, backend) ==
    IF frontend # Nil /\ backend # Nil THEN "fullstack"
    ELSE IF frontend # Nil THEN "frontend"
    ELSE IF backend # Nil THEN "backend"
    ELSE "unknown"

\* filepath.Base of a slash-separated path without trailing slash
RECURSIVE Base(_)
Base(path) ==
    LET k == Index(path, "/")
    IN  IF k = 0 THEN path ELSE Base(SubSeq(path, k + 1, Len(path)))

timestamp == "0"

Metadata(rootDir, frontend, backend, middleware) ==
    [nil        |-> FALSE,
     Project    |-> [Name       |-> Base(rootDir),
                     Type       |-> projectType(frontend, backend),
                     DetectedAt |-> timestamp],
     TechStack  |-> [Frontend |-> frontend, Backend |-> backend],
     Middleware |-> middleware]

(***************************************************************************)
(* Directory trees the detector is run on.                                 *)
(***************************************************************************)
rootDir == "/proj"

MaxDeps == 2
MaxSubdirs == 2
MaxEnvLines == 2

EmptyTree == [p \in {} |-> DirEntry]

\* the directories above a path
Ancestors(path) ==
    {SubSeq(path, 1, i - 1) : i \in {j \in 2..Len(path) : Char(path, j) = "/"}}

\* the files of profile (relative path -> entry) placed under dir; the
\* relative path "" stands for dir itself
At(dir, profile) ==
    [p \in {Join(dir, r) : r \in DOMAIN profile} |->
        profile[CHOOSE r \in DOMAIN profile : Join(dir, r) = p]]

\* a tree holds every directory above each of its entries
WithDirs(files) ==
    files @@ [d \in UNION {Ancestors(p) : p \in DOMAIN files} |-> DirEntry]

One(rel, entry) == [r \in {rel} |-> entry]

\* the elements of a set of indices, ascending
RECURSIVE Ascending(_)
Ascending(S) ==
    IF S = {} THEN <<>>
    ELSE LET m == CHOOSE x \in S : \A y \in S : x <= y
         IN  <<m>> \o Ascending(S \ {m})

DepNames ==
    <<"next", "react", "react-dom", "vue", "vite", "svelte", "typescript",
      "express", "fastify", "koa", "@prisma/client", "prisma", "mongoose",
      "pg", "lodash">>

DevNames == {"typescript", "vite", "prisma"}

\* one "dependencies"-style section, one entry per line
Section(title, names) ==
    IF names = <<>> THEN <<>>
    ELSE <<"  \"" \o title \o "\": {">>
         \o [i \in 1..Len(names) |->
                "    \"" \o names[i] \o "\": \"^1.0.0\""
                     \o (IF i < Len(names) THEN "," ELSE "")]
         \o <<"  },">>

PkgJson(names) ==
    File(<<"{", "  \"name\": \"app\",", "  \"version\": \"0.1.0\",">>
         \o Section("dependencies", SelectSeq(names, LAMBDA n : n \notin DevNames))
         \o Section("devDependencies", SelectSeq(names, LAMBDA n : n \in DevNames))
         \o <<"  \"scripts\": {", "    \"start\": \"node .\"", "  }", "}">>)

DepChoices ==
    {[i \in 1..Len(ix) |-> DepNames[ix[i]]] :
        ix \in {Ascending(S) : S \in {T \in SUBSET (1..Len(DepNames)) :
                                         Cardinality(T) <= MaxDeps}}}

GoModPlain == File(<<"module example.com/app", "", "go 1.22">>)
GoModDrivers ==
    File(<<"module example.com/app", "", "go 1.22", "",
           "require (", "    go.mongodb.org/mongo-driver v1.13.0",
           "    github.com/lib/pq v1.10.9", ")">>)
Requirements == File(<<"fastapi==0.110.0", "uvicorn">>)
PyProject == File(<<"[project]", "name = \"app\"">>)
SchemaPostgres ==
    File(<<"datasource db {", "  provider = \"postgresql\"",
           "  url      = env(\"DATABASE_URL\")", "}">>)
SchemaMongo ==
    File(<<"datasource db {", "  provider = \"mongodb\"",
           "  url      = env(\"DATABASE_URL\")", "}">>)
ValidDockerfile == File(<<"FROM node:20", "EXPOSE 3000", "CMD [\"npm\", \"start\"]">>)
EnvSample == File(<<"PORT=8080", "API_SECRET_KEY=abc123">>)

Optional(profiles) == {EmptyTree} \cup profiles


RootPackages == Optional({One("package.json", PkgJson(d)) : d \in DepChoices})

\* a root holding manifests only
ManifestTrees ==
    {WithDirs(At(rootDir, One("", DirEntry) @@ pkg @@ gomod @@ py)) :
        pkg   \in RootPackages,
        gomod \in Optional({One("go.mod", GoModDrivers)}),
        py    \in Optional({One("requirements.txt", Requirements),
                            One("pyproject.toml", PyProject)})}

\* a root holding a package.json and an ORM schema
SchemaTrees ==
    {WithDirs(At(rootDir, One("", DirEntry) @@ pkg @@ schema)) :
        pkg    \in RootPackages,
        schema \in {One("prisma/schema.prisma", SchemaPostgres),
                    One("prisma/schema.prisma", SchemaMongo)}}

\* what a candidate subdirectory may hold
FrontendProfiles ==
    {One("", DirEntry) @@ m :
        m \in {One("package.json", PkgJson(<<"lodash">>)),
               One("package.json", PkgJson(<<"react">>)),
               One("package.json", PkgJson(<<"vue", "typescript">>))
                   @@ One(".env", EnvSample) @@ One("Dockerfile", ValidDockerfile)}}

BackendProfiles ==
    {One("", DirEntry) @@ m :
        m \in {EmptyTree,
               One("go.mod", GoModDrivers) @@ One(".env", EnvSample),
               One("go.mod", GoModPlain) @@ One("Dockerfile", ValidDockerfile),
               One("package.json", PkgJson(<<"koa">>))
                   @@ One("Dockerfile", ValidDockerfile)}}

SubdirNames ==
    {frontendDirs[i] : i \in 1..Len(frontendDirs)}
        \cup {backendDirs[i] : i \in 1..Len(backendDirs)}

ProfilesOf(dir) ==
    IF \E i \in 1..Len(frontendDirs) : frontendDirs[i] = dir
    THEN FrontendProfiles ELSE BackendProfiles

\* the trees that place a profile in each directory of dirs
RECURSIVE Populate(_, _)
Populate(base, dirs) ==
    IF dirs = {} THEN {base}
    ELSE LET dir == CHOOSE x \in dirs : TRUE
         IN  UNION {Populate(base @@ At(Join(rootDir, dir), p), dirs \ {dir}) :
                        p \in ProfilesOf(dir)}

MonorepoRoots ==
    {One("", DirEntry),
     One("", DirEntry) @@ One("go.mod", GoModPlain) @@ One("Dockerfile", ValidDockerfile)}

\* a root without (or with one) manifest above candidate subdirectories
MonorepoTrees ==
    UNION {Populate(At(rootDir, r), dirs) :
              r \in MonorepoRoots,
              dirs \in {D \in SUBSET SubdirNames : Cardinality(D) <= MaxSubdirs}}

EnvLineMenu ==
    <<"PORT=8080", "API_SECRET_KEY=abc123", "# DEBUG=1", "",
      "  Db_PassWord = hunter2 ", "HOST = localhost:80=x", "NOVALUE">>

EnvContents ==
    UNION {[1..n -> {EnvLineMenu[i] : i \in 1..Len(EnvLineMenu)}] : n \in 0..MaxEnvLines}

EnvPaths == <<"frontend/.env", "frontend/.env.local", ".env", ".env.local", "backend/.env">>

EnvSecond == File(<<"PORT=1", "monKEY=2", "EXTRA=3">>)

ReactRoot == One("package.json", PkgJson(<<"react">>))
GoRoot == One("go.mod", GoModPlain)
PythonRoot == One("requirements.txt", Requirements)
NodeRoot == One("package.json", PkgJson(<<"express">>))

\* a stack at the root and the position in EnvPaths of its env file
StackEnvFiles ==
    ({ReactRoot} \X (1..Len(EnvPaths)))
        \cup ({GoRoot} \X {3, 4, 5})
        \cup ({PythonRoot} \X {3})
        \cup ({NodeRoot} \X {5})

\* a root holding one stack, an env file and possibly a second env file
EnvTreesAt(m, i) ==
    {WithDirs(At(rootDir, One("", DirEntry) @@ m @@ One(EnvPaths[i], File(c)) @@ second)) :
        c \in EnvContents,
        second \in Optional({One(EnvPaths[(i % Len(EnvPaths)) + 1], EnvSecond)})}

EnvTrees == UNION {EnvTreesAt(se[1], se[2]) : se \in StackEnvFiles}

FromOnlyDockerfile == File(<<"FROM scratch", "COPY . /app">>)
CommentedFromDockerfile == File(<<"# FROM golang:1.22", "CMD [\"./server\"]">>)

DockerContents == {ValidDockerfile, FromOnlyDockerfile, CommentedFromDockerfile}

DockerPaths ==
    {"frontend/Dockerfile", "Dockerfile", "Dockerfile.frontend",
     "backend/Dockerfile", "Dockerfile.backend", "api/Dockerfile"}

MaxDockerfiles == 2

\* the ways to put a Dockerfile-like file at each path of paths
RECURSIVE DockerSets(_)
DockerSets(paths) ==
    IF paths = {} THEN {EmptyTree}
    ELSE LET path == CHOOSE x \in paths : TRUE
         IN  {One(path, c) @@ rest : c \in DockerContents, rest \in DockerSets(paths \ {path})}

\* a root holding one stack and Dockerfile candidates
DockerTrees ==
    {WithDirs(At(rootDir, One("", DirEntry) @@ m @@ d)) :
        m \in {ReactRoot, GoRoot, PythonRoot, NodeRoot},
        d \in UNION {DockerSets(P) : P \in {Q \in SUBSET DockerPaths :
                                                Cardinality(Q) <= MaxDockerfiles}}}

RequirementsDrivers == File(<<"fastapi==0.110.0", "pymongo==4.6.1", "redis">>)

\* package.json entries that give the line scanner nothing: unreadable, a
\* directory, JSON on a single line, and text without a section header
BrokenPackages ==
    {NoPermFile, DirEntry,
     File(<<"{\"dependencies\":{\"react\":\"^18.0.0\",\"express\":\"^4.0.0\"}}">>),
     File(<<"dependencies = [", "react: 18", "mongoose: 8", "]">>)}

\* a root with a broken package.json next to other manifests, Dockerfiles
\* and env files, some of them unreadable
BrokenTrees ==
    {WithDirs(At(rootDir, One("", DirEntry) @@ One("package.json", pkg)
                              @@ gomod @@ py @@ docker @@ env)) :
        pkg \in BrokenPackages,
        gomod \in Optional({One("go.mod", GoModDrivers), One("go.mod", NoPermFile)}),
        py \in Optional({One("requirements.txt", RequirementsDrivers),
                         One("requirements.txt", NoPermFile)}),
        docker \in Optional({One("Dockerfile", ValidDockerfile),
                             One("backend/Dockerfile", NoPermFile)
                                 @@ One("Dockerfile", ValidDockerfile),
                             One("Dockerfile", NoPermFile)}),
        env \in Optional({One(".env", EnvSample), One(".env", NoPermFile)})}

\* candidate directories holding candidate directories of their own
NestedTrees ==
    {WithDirs(At(rootDir, One("", DirEntry)
                              @@ One("frontend/web/package.json", PkgJson(<<"react">>))
                              @@ One("backend/api/go.mod", GoModDrivers)
                              @@ extra)) :
        extra \in Optional({One("frontend/package.json", PkgJson(<<"lodash">>)),
                            One("backend/Dockerfile", ValidDockerfile),
                            One("frontend/package.json", PkgJson(<<"vue">>))
                                @@ One("frontend/frontend/Dockerfile", ValidDockerfile)})}

Trees ==
    {EmptyTree} \cup ManifestTrees \cup SchemaTrees \cup MonorepoTrees
        \cup EnvTrees \cup DockerTrees \cup BrokenTrees \cup NestedTrees

(***************************************************************************)
(* The state of the other commands: login and logout (cfg is the Config in *)
(* memory, saved the config file, clock the wall clock in seconds, the     *)
(* rest the locals of runLogin), the dependency scanner run on its own,    *)
(* and the merge of an editor's MCP config file.                           *)
(***************************************************************************)
VARIABLES loaded, cfg, saved, lpc, clock, pollInterval, ticker, timeout, reply, pollResp,
          pollErr, outcome

loginVars ==
    <<loaded, cfg, saved, lpc, clock, pollInterval, ticker, timeout, reply, pollResp, pollErr,
      outcome>>

VARIABLES manifest, deps, ppc

parseVars == <<manifest, deps, ppc>>

VARIABLES file, original, mergeErr, mpc

mergeVars == <<file, original, mergeErr, mpc>>

\* time.Time{}: the zero time, before every time the clock shows
ZeroTime == 0

NoAuth ==
    [AccessToken |-> "", RefreshToken |-> "", TokenExpiry |-> ZeroTime,
     UserID |-> "", Email |-> ""]

\* Config{}: every field at its zero value
ZeroConfig ==
    [Auth   |-> NoAuth,
     MCP    |-> [ServerURL |-> "", APIToken |-> ""],
     Skills |-> [InstallDir |-> "", Installed |-> <<>>, GitHubRepo |-> "", GitHubRef |-> ""]]

\* no file at configPath
NoFile == [kind |-> "missing", keys |-> [k \in {} |-> [type |-> "null"]]]

\* the config file not written yet
NotSaved == [written |-> FALSE]

NoFields == [name \in {} |-> [type |-> "null"]]

EmptyBody == [kind |-> "empty", fields |-> NoFields]

NoReply == [request |-> "", transport |-> "none", code |-> 0, body |-> EmptyBody]

NoUser == [ID |-> "", Email |-> "", Name |-> "", Role |-> ""]

\* var resp DeviceFlowPollResponse
NoPollResponse == [Status |-> "", AccessToken |-> "", ExpiresIn |-> 0, User |-> NoUser]

\* no ticker created yet
NoTicker == [period |-> 0, next |-> 0, ready |-> FALSE]

\* no login or logout command is running
LoginOff ==
    /\ loaded = ZeroConfig
    /\ cfg = ZeroConfig
    /\ saved = NotSaved
    /\ lpc = "off"
    /\ clock = 0
    /\ pollInterval = 0
    /\ ticker = NoTicker
    /\ timeout = 0
    /\ reply = NoReply
    /\ pollResp = NoPollResponse
    /\ pollErr = "nil"
    /\ outcome = "off"

ParseOff == manifest = [sections |-> <<>>, lines |-> <<>>] /\ deps = NoDeps /\ ppc = "off"

MergeOff == file = NoFile /\ original = NoFile /\ mergeErr = "nil" /\ mpc = "off"

(***************************************************************************)
(* One Detect call as a state machine.  calls counts the calls made so far *)
(* and earlier is the history of the calls that returned: the tree each    *)
(* ran on and the Metadata it returned; probed is the set of paths the     *)
(* running call has handed to os.Stat, os.ReadFile or os.Open.             *)
(***************************************************************************)
VARIABLES fs, pc, frontend, backend, scanned, middleware, result, err, calls, earlier,
          probed

detectVars ==
    <<fs, pc, frontend, backend, scanned, middleware, result, err, calls, earlier, probed>>

vars == <<detectVars, loginVars, parseVars, mergeVars>>

NoMiddleware == [MongoDB |-> FALSE, Redis |-> FALSE, Postgres |-> FALSE, MySQL |-> FALSE]

Init ==
    /\ fs \in Trees
    /\ pc = "start"
    /\ frontend = Nil
    /\ backend = Nil
    /\ scanned = FALSE
    /\ middleware = NoMiddleware
    /\ result = Nil
    /\ err = "nil"
    /\ calls = 1
    /\ earlier = <<>>
    /\ probed = {}
    /\ LoginOff
    /\ ParseOff
    /\ MergeOff

\* RootFrontend answering from the frontend of the last returned Metadata
RootFrontend_cached ==
    /\ pc = "start"
    /\ UNCHANGED <<loginVars, parseVars, mergeVars>>
    /\ frontend' = IF earlier # <<>>
                   THEN earlier[Len(earlier)].result.TechStack.Frontend
                   ELSE detectFrontend(fs, rootDir)
    /\ probed' = probed \cup probesFrontend(fs, rootDir)
    /\ pc' = "backend"
    /\ UNCHANGED <<fs, backend, scanned, middleware, result, err, calls, earlier>>

\* frontend := d.detectFrontend()
RootFrontend ==
    /\ pc = "start"
    /\ UNCHANGED <<loginVars, parseVars, mergeVars>>
    /\ frontend' = detectFrontend(fs, rootDir)
    /\ probed' = probed \cup probesFrontend(fs, rootDir)
    /\ pc' = "backend"
    /\ UNCHANGED <<fs, backend, scanned, middleware, result, err, calls, earlier>>

\* RootBackend creating the root's .env when it is missing, as an open with
\* a create flag does
RootBackend_creatingEnv ==
    /\ pc = "backend"
    /\ UNCHANGED <<loginVars, parseVars, mergeVars>>
    /\ backend' = detectBackend(fs, rootDir)
    /\ fs' = IF fileExists(fs, Join(rootDir, ".env")) THEN fs
             ELSE fs @@ At(rootDir, One(".env", File(<<>>)))
    /\ probed' = probed \cup probesBackend(fs, rootDir)
    /\ pc' = "monorepo"
    /\ UNCHANGED <<frontend, scanned, middleware, result, err, calls, earlier>>

\* backend := d.detectBackend()
RootBackend ==
    /\ pc = "backend"
    /\ UNCHANGED <<loginVars, parseVars, mergeVars>>
    /\ backend' = detectBackend(fs, rootDir)
    /\ probed' = probed \cup probesBackend(fs, rootDir)
    /\ pc' = "monorepo"
    /\ UNCHANGED <<fs, frontend, scanned, middleware, result, err, calls, earlier>>

\* needsMonorepo satisfied by a single missing side
needsMonorepo_either(f, b) == f = Nil \/ b = Nil

\* the condition under which Detect calls detectMonorepo
needsMonorepo(f, b) == f = Nil /\ b = Nil

\* if frontend == nil && backend == nil { frontend, backend = d.detectMonorepo() }
MonorepoFallback ==
    /\ pc = "monorepo"
    /\ UNCHANGED <<loginVars, parseVars, mergeVars>>
    /\ IF needsMonorepo(frontend, backend)
       THEN /\ LET found == detectMonorepo(fs, rootDir)
               IN  frontend' = found.frontend /\ backend' = found.backend
            /\ scanned' = TRUE
            /\ probed' = probed \cup probesMonorepo(fs, rootDir)
       ELSE UNCHANGED <<frontend, backend, scanned, probed>>
    /\ pc' = "middleware"
    /\ UNCHANGED <<fs, middleware, result, err, calls, earlier>>

\* DetectMiddleware reading the manifests of the backend directory
DetectMiddleware_backendDir ==
    /\ pc = "middleware"
    /\ UNCHANGED <<loginVars, parseVars, mergeVars>>
    /\ middleware' = detectMiddleware(fs, Join(rootDir, "backend"))
    /\ probed' = probed \cup probesMiddleware(fs, Join(rootDir, "backend"))
    /\ pc' = "return"
    /\ UNCHANGED <<fs, frontend, backend, scanned, result, err, calls, earlier>>

\* middleware := d.detectMiddleware()
DetectMiddleware ==
    /\ pc = "middleware"
    /\ UNCHANGED <<loginVars, parseVars, mergeVars>>
    /\ middleware' = detectMiddleware(fs, rootDir)
    /\ probed' = probed \cup probesMiddleware(fs, rootDir)
    /\ pc' = "return"
    /\ UNCHANGED <<fs, frontend, backend, scanned, result, err, calls, earlier>>

\* Return giving up with an error when a probed root file could not be read
Return_failing ==
    /\ pc = "return"
    /\ UNCHANGED <<loginVars, parseVars, mergeVars>>
    /\ IF \E name \in {"package.json", "go.mod", "requirements.txt", "Dockerfile", ".env"} :
             fileExists(fs, Join(rootDir, name)) /\ ~Readable(fs, Join(rootDir, name))
       THEN result' = Nil /\ err' = "detection failed"
       ELSE result' = Metadata(rootDir, frontend, backend, middleware) /\ err' = "nil"
    /\ pc' = "done"
    /\ earlier' = Append(earlier, [tree |-> fs, result |-> result'])
    /\ UNCHANGED <<fs, frontend, backend, scanned, middleware, calls, probed>>

\* return &Metadata{...}, nil
Return ==
    /\ pc = "return"
    /\ UNCHANGED <<loginVars, parseVars, mergeVars>>
    /\ result' = Metadata(rootDir, frontend, backend, middleware)
    /\ err' = "nil"
    /\ pc' = "done"
    /\ earlier' = Append(earlier, [tree |-> fs, result |-> result'])
    /\ UNCHANGED <<fs, frontend, backend, scanned, middleware, calls, probed>>

Next ==
    \/ RootFrontend
    \/ RootBackend
    \/ MonorepoFallback
    \/ DetectMiddleware
    \/ Return

Spec == Init /\ [][Next]_vars

\* the statement of Detect that follows the one at p
After(p) ==
    CASE p = "start" -> "backend"
      [] p = "backend" -> "monorepo"
      [] p = "monorepo" -> "middleware"
      [] p = "middleware" -> "return"
      [] OTHER -> "done"

\* control moves on to the next statement
Advance == pc # "done" /\ pc' = After(pc)

\* Detect is straight-line, synchronous code: a call that has not returned
\* goes on to its next statement
SpecFair == Spec /\ WF_pc(Advance)

MaxCalls == 2

\* the trees of the repeated calls
RepeatTrees ==
    {WithDirs(At(rootDir, One("", DirEntry) @@ m)) :
        m \in {EmptyTree,
               ReactRoot @@ One(".env", EnvSample),
               GoRoot @@ One("Dockerfile", ValidDockerfile),
               One("package.json", PkgJson(<<"express", "mongoose">>)),
               PythonRoot,
               One("frontend/package.json", PkgJson(<<"vue">>))
                   @@ One("backend/go.mod", GoModDrivers)}}

InitRepeat ==
    /\ fs \in RepeatTrees
    /\ pc = "start"
    /\ frontend = Nil
    /\ backend = Nil
    /\ scanned = FALSE
    /\ middleware = NoMiddleware
    /\ result = Nil
    /\ err = "nil"
    /\ calls = 1
    /\ earlier = <<>>
    /\ probed = {}
    /\ LoginOff
    /\ ParseOff
    /\ MergeOff

\* a further Detect call, on the same tree or on another one: the locals
\* of the call start afresh
NewCall ==
    /\ pc = "done"
    /\ UNCHANGED <<loginVars, parseVars, mergeVars>>
    /\ calls < MaxCalls
    /\ calls' = calls + 1
    /\ fs' \in RepeatTrees
    /\ pc' = "start"
    /\ frontend' = Nil
    /\ backend' = Nil
    /\ scanned' = FALSE
    /\ middleware' = NoMiddleware
    /\ result' = Nil
    /\ err' = "nil"
    /\ probed' = {}
    /\ UNCHANGED earlier

NextRepeat ==
    \/ Next
    \/ NewCall

\* Detect called repeatedly
SpecRepeat == InitRepeat /\ [][NextRepeat]_vars

\* Detect as a function of the tree
Detect(t) ==
    LET f0   == detectFrontend(t, rootDir)
        b0   == detectBackend(t, rootDir)
        mono == detectMonorepo(t, rootDir)
        f    == IF needsMonorepo(f0, b0) THEN mono.frontend ELSE f0
        b    == IF needsMonorepo(f0, b0) THEN mono.backend ELSE b0
    IN  Metadata(rootDir, f, b, detectMiddleware(t, rootDir))

Returned == pc = "done"

(***************************************************************************)
(* Properties.                                                             *)
(***************************************************************************)
RootPkg == Join(rootDir, "package.json")

\* a dependency name counts as present in the root package.json
RootHas(name) == Readable(fs, RootPkg) /\ hasDep(parseDependencies(fs[RootPkg].lines), name)

FrontendOrder == <<"frontend", "web", "client", "ui">>
BackendOrder == <<"backend", "api", "server", "services">>

FrontendHit(i) ==
    /\ fileExists(fs, Join(rootDir, FrontendOrder[i]))
    /\ detectFrontend(fs, Join(rootDir, FrontendOrder[i])) # Nil

BackendHit(i) ==
    /\ fileExists(fs, Join(rootDir, BackendOrder[i]))
    /\ detectBackend(fs, Join(rootDir, BackendOrder[i])) # Nil

\* the directory whose sub-detector produced the returned stack
FrontendHome ==
    IF scanned
    THEN FrontendOrder[CHOOSE i \in 1..4 : FrontendHit(i) /\ \A j \in 1..(i - 1) : ~FrontendHit(j)]
    ELSE ""

BackendHome ==
    IF scanned
    THEN BackendOrder[CHOOSE i \in 1..4 : BackendHit(i) /\ \A j \in 1..(i - 1) : ~BackendHit(j)]
    ELSE ""

\* C1: in every returned Metadata the project type is fullstack iff both
\* stacks are non-nil, frontend iff only the frontend stack is, backend iff
\* only the backend stack is, unknown iff both are nil.
C1_TypeInvariant ==
    Returned =>
        LET f  == result.TechStack.Frontend # Nil
            b  == result.TechStack.Backend # Nil
            ty == result.Project.Type
        IN  /\ ty \in {"fullstack", "frontend", "backend", "unknown"}
            /\ (ty = "fullstack") <=> (f /\ b)
            /\ (ty = "frontend") <=> (f /\ ~b)
            /\ (ty = "backend") <=> (~f /\ b)
            /\ (ty = "unknown") <=> (~f /\ ~b)

C1_Witness ==
    /\ Returned
    /\ scanned
    /\ result.Project.Type = "fullstack"

\* C2: when the root directory does not exist, Detect returns a non-nil
\* error and no Metadata.
C2_MissingRootFails ==
    (Returned /\ ~fileExists(fs, rootDir)) => (err # "nil" /\ result = Nil)

\* C3: with @prisma/client declared in the root package.json, a schema
\* declaring provider = "postgresql" gives Postgres and not MongoDB, and a
\* missing schema file gives MongoDB and not Postgres.  Stated for roots
\* whose only manifest is the package.json, so that no other manifest
\* contributes to the booleans.
C3_PrismaDisambiguation ==
    LET schemaPath == Join(rootDir, "prisma/schema.prisma")
    IN  (Returned /\ Readable(fs, RootPkg)
            /\ ~fileExists(fs, Join(rootDir, "go.mod"))
            /\ ~fileExists(fs, Join(rootDir, "requirements.txt"))
            /\ "@prisma/client" \in DOMAIN parseDependencies(fs[RootPkg].lines)) =>
            /\ (Readable(fs, schemaPath)
                    /\ ContentContains(fs[schemaPath].lines, "provider = \"postgresql\"")) =>
                   (result.Middleware.Postgres /\ ~result.Middleware.MongoDB)
            /\ ~fileExists(fs, schemaPath) =>
                   (result.Middleware.MongoDB /\ ~result.Middleware.Postgres)

\* the tree of C4: no manifest at the top level, backend/go.mod, and a
\* frontend/package.json with a recognizable frontend dependency
C4_Tree ==
    /\ \A m \in {"package.json", "go.mod", "requirements.txt", "pyproject.toml"} :
            ~fileExists(fs, Join(rootDir, m))
    /\ fileExists(fs, Join(rootDir, "backend/go.mod"))
    /\ Readable(fs, Join(rootDir, "frontend/package.json"))
    /\ \E n \in {"next", "react", "react-dom", "vue", "vite", "svelte"} :
            n \in DOMAIN parseDependencies(fs[Join(rootDir, "frontend/package.json")].lines)

\* C4 as stated: on such a tree the type is fullstack and both Dockerfile
\* paths carry the prefix backend/ resp. frontend/, Dockerfile or not.
C4_AlwaysPrefixed ==
    (Returned /\ C4_Tree) =>
        /\ result.Project.Type = "fullstack"
        /\ HasPrefix(result.TechStack.Backend.Dockerfile, "backend/")
        /\ HasPrefix(result.TechStack.Frontend.Dockerfile, "frontend/")

\* C4 amended: on such a tree the type is fullstack, Dockerfile or not,
\* and a stack for which a valid Dockerfile was found reports a path
\* prefixed by backend/ resp. frontend/.
C4_MonorepoFallback ==
    (Returned /\ C4_Tree) =>
        LET b == result.TechStack.Backend
            f == result.TechStack.Frontend
        IN  /\ result.Project.Type = "fullstack"
            /\ b.HasDockerfile => HasPrefix(b.Dockerfile, "backend/")
            /\ f.HasDockerfile => HasPrefix(f.Dockerfile, "frontend/")

C4_Witness ==
    /\ Returned
    /\ C4_Tree
    /\ result.TechStack.Backend.Dockerfile = "backend/Dockerfile"
    /\ result.TechStack.Frontend.Dockerfile = "frontend/Dockerfile"

Sensitive(key) ==
    \E w \in {"secret", "password", "key"} : Contains(ToLower(key), w)

\* every KEY=VALUE line of the env files of one stack obeys the rule
EnvRule(stack, home, candidates) ==
    \A c \in 1..Len(candidates) :
        LET path == Join(Join(rootDir, home), candidates[c])
        IN  Readable(fs, path) =>
                \A n \in 1..Len(fs[path].lines) :
                    LET line == TrimSpace(fs[path].lines[n])
                        eq   == Index(line, "=")
                        key  == TrimSpace(SubSeq(line, 1, eq - 1))
                    IN  (line # "" /\ ~HasPrefix(line, "#") /\ eq > 0) =>
                            IF Sensitive(key) THEN key \notin DOMAIN stack.EnvVars
                            ELSE /\ key \in DOMAIN stack.EnvVars
                                 /\ stack.EnvVars[key] = "[VALUE]"

IsEnvFile(path) == Base(path) \in {".env", ".env.local"}

\* the line with the text after its first "=" replaced
Revalued(line) ==
    LET eq == Index(line, "=")
    IN  IF eq = 0 THEN line ELSE SubSeq(line, 1, eq) \o "other"

\* the tree with every value of every env file replaced
RevaluedTree ==
    [p \in DOMAIN fs |->
        IF IsEnvFile(p) /\ fs[p].kind = "file"
        THEN File([n \in 1..Len(fs[p].lines) |-> Revalued(fs[p].lines[n])])
        ELSE fs[p]]

Stacks(md) == {md.TechStack.Frontend, md.TechStack.Backend} \ {Nil}

C7_RootBeforeMonorepo ==
    Returned =>
        LET f0 == detectFrontend(fs, rootDir)
            b0 == detectBackend(fs, rootDir)
        IN  /\ scanned <=> (f0 = Nil /\ b0 = Nil)
            /\ ~scanned => /\ result.TechStack.Frontend = f0
                           /\ result.TechStack.Backend = b0

C7_Witness ==
    /\ Returned
    /\ result.TechStack.Backend # Nil
    /\ result.TechStack.Frontend = Nil
    /\ FrontendHit(1)

\* the stack a candidate directory contributes: its detection result, with
\* the Dockerfile path made relative to the root
FromDir(stack, dir) == [stack EXCEPT !.Dockerfile = Join(dir, @)]

\* C8: after the monorepo scan each side holds the detection result of the
\* first candidate directory, in the listed order, whose detection succeeds
\* (nil if none does); candidates without a detection are skipped.
C8_FirstCandidateWins ==
    (Returned /\ scanned) =>
        /\ IF \E i \in 1..4 : FrontendHit(i)
           THEN \E i \in 1..4 :
                   /\ FrontendHit(i)
                   /\ \A j \in 1..(i - 1) : ~FrontendHit(j)
                   /\ result.TechStack.Frontend =
                        FromDir(detectFrontend(fs, Join(rootDir, FrontendOrder[i])),
                                FrontendOrder[i])
           ELSE result.TechStack.Frontend = Nil
        /\ IF \E i \in 1..4 : BackendHit(i)
           THEN \E i \in 1..4 :
                   /\ BackendHit(i)
                   /\ \A j \in 1..(i - 1) : ~BackendHit(j)
                   /\ result.TechStack.Backend =
                        FromDir(detectBackend(fs, Join(rootDir, BackendOrder[i])),
                                BackendOrder[i])
           ELSE result.TechStack.Backend = Nil

C8_Witness ==
    /\ Returned
    /\ scanned
    /\ fileExists(fs, Join(rootDir, "frontend"))
    /\ ~FrontendHit(1)
    /\ FrontendHit(2)
    /\ result.TechStack.Frontend.Framework = "react"

FrameworkOrder ==
    <<[deps |-> {"next"}, framework |-> "nextjs", port |-> 3000],
      [deps |-> {"react", "react-dom"}, framework |-> "react", port |-> 3000],
      [deps |-> {"vue"}, framework |-> "vue", port |-> 5173],
      [deps |-> {"vite"}, framework |-> "vite", port |-> 5173],
      [deps |-> {"svelte"}, framework |-> "svelte", port |-> 5173]>>

FrameworkMatch(i) == \E n \in FrameworkOrder[i].deps : RootHas(n)

\* C9: detectFrontend reports the first framework of the fixed order that
\* matches, with its port, and nil when the package.json matches none.
C9_FrameworkPriority ==
    (pc = "backend") =>
        IF \E i \in 1..5 : FrameworkMatch(i)
        THEN \E i \in 1..5 :
                /\ FrameworkMatch(i)
                /\ \A j \in 1..(i - 1) : ~FrameworkMatch(j)
                /\ frontend # Nil
                /\ frontend.Framework = FrameworkOrder[i].framework
                /\ frontend.Port = FrameworkOrder[i].port
        ELSE frontend = Nil

C9_Witness ==
    /\ pc = "backend"
    /\ RootHas("next")
    /\ RootHas("react")
    /\ frontend # Nil
    /\ frontend.Framework = "nextjs"

\* C10: detectBackend classifies by the first manifest present in the
\* order go.mod, requirements.txt or pyproject.toml, package.json declaring
\* express, fastify or koa; a later manifest never influences the result,
\* and without any of them the result is nil.
C10_BackendPriority ==
    (pc = "monorepo") =>
        IF fileExists(fs, Join(rootDir, "go.mod"))
        THEN /\ backend # Nil
             /\ backend.Framework = "gin"
             /\ backend.Language = "go"
             /\ backend.Version = "1.22"
             /\ backend.Port = 8080
        ELSE IF \/ fileExists(fs, Join(rootDir, "requirements.txt"))
                \/ fileExists(fs, Join(rootDir, "pyproject.toml"))
        THEN /\ backend # Nil
             /\ backend.Framework = "fastapi"
             /\ backend.Language = "python"
             /\ backend.Port = 8000
        ELSE IF RootHas("express") \/ RootHas("fastify") \/ RootHas("koa")
        THEN /\ backend # Nil
             /\ backend.Framework \in {"express", "fastify", "koa"}
             /\ backend.Language = "nodejs"
             /\ backend.Port = 8080
        ELSE backend = Nil

C10_Witness ==
    /\ pc = "monorepo"
    /\ fileExists(fs, Join(rootDir, "go.mod"))
    /\ RootHas("express")
    /\ backend # Nil
    /\ backend.Language = "go"

\* the shallow check of a Dockerfile's text
PassesShallowCheck(lines) ==
    /\ \E n \in 1..Len(lines) : Contains(lines[n], "FROM")
    /\ \E n \in 1..Len(lines) : \E w \in {"EXPOSE", "CMD", "ENTRYPOINT"} : Contains(lines[n], w)

\* the Dockerfile candidates of a root-level stack, by its language
CandidatesOf(stack) ==
    IF stack.Language \in {"javascript", "typescript"}
    THEN <<"frontend/Dockerfile", "Dockerfile", "Dockerfile.frontend">>
    ELSE IF stack.Language = "go"
    THEN <<"backend/Dockerfile", "Dockerfile", "Dockerfile.backend">>
    ELSE IF stack.Language = "python" THEN <<"backend/Dockerfile", "Dockerfile">>
    ELSE <<"backend/Dockerfile", "api/Dockerfile", "Dockerfile">>

CandidatePasses(paths, i) ==
    /\ Readable(fs, Join(rootDir, paths[i]))
    /\ PassesShallowCheck(fs[Join(rootDir, paths[i])].lines)

FirstPassing(stack) ==
    LET paths == CandidatesOf(stack)
    IN  IF \E i \in 1..Len(paths) : CandidatePasses(paths, i)
        THEN \E i \in 1..Len(paths) :
                /\ CandidatePasses(paths, i)
                /\ \A j \in 1..(i - 1) : ~CandidatePasses(paths, j)
                /\ stack.Dockerfile = paths[i]
                /\ stack.HasDockerfile
        ELSE stack.Dockerfile = "" /\ ~stack.HasDockerfile

\* C11: findDockerfile reports the first candidate, in list order, that
\* exists and whose text contains FROM and one of EXPOSE, CMD, ENTRYPOINT
\* as plain substrings; a failing earlier candidate does not stop the
\* search, and without a passing candidate the result is ("", false).
C11_FirstValidDockerfile ==
    (pc = "monorepo") =>
        /\ frontend # Nil => FirstPassing(frontend)
        /\ backend # Nil => FirstPassing(backend)

C11_Witness ==
    /\ pc = "monorepo"
    /\ backend # Nil
    /\ fileExists(fs, Join(rootDir, "backend/Dockerfile"))
    /\ fileExists(fs, Join(rootDir, "Dockerfile"))
    /\ fs[Join(rootDir, "Dockerfile")] = CommentedFromDockerfile
    /\ backend.HasDockerfile
    /\ backend.Dockerfile = "Dockerfile"

\* C12: the Metadata a Detect call returns is a function of the tree alone:
\* every call returns what Detect gives on its tree, so any two calls on the
\* same tree return equal Metadata, whatever calls were made before.
C12_Deterministic ==
    /\ \A i \in 1..Len(earlier) : earlier[i].result = Detect(earlier[i].tree)
    /\ \A i, j \in 1..Len(earlier) :
          earlier[i].tree = earlier[j].tree => earlier[i].result = earlier[j].result

C12_Witness ==
    /\ Len(earlier) = 2
    /\ earlier[1].tree = earlier[2].tree
    /\ earlier[2].result.Project.Type = "fullstack"
    /\ earlier[2].result.Middleware = NoMiddleware

\* the TechStack values the sub-detectors constructed for the returned stacks
BuiltFrontend == detectFrontend(fs, Join(rootDir, FrontendHome))
BuiltBackend == detectBackend(fs, Join(rootDir, BackendHome))

\* C13 as claimed: the TechStack in the returned Metadata is field for field
\* the value its sub-detector constructed.
C13_StackUntouched ==
    Returned =>
        /\ frontend # Nil => result.TechStack.Frontend = BuiltFrontend
        /\ backend # Nil => result.TechStack.Backend = BuiltBackend

SameButDockerfile(stack, built) ==
    \A field \in DOMAIN built \ {"Dockerfile"} : stack[field] = built[field]

\* C13: a stack of root-level detection is returned as constructed; a stack
\* of the monorepo scan differs from the constructed value in Dockerfile
\* only, which is the directory name joined with the constructed path.
C13_OnlyDockerfileRewritten ==
    Returned =>
        /\ frontend # Nil =>
              /\ DOMAIN result.TechStack.Frontend = DOMAIN BuiltFrontend
              /\ SameButDockerfile(result.TechStack.Frontend, BuiltFrontend)
              /\ result.TechStack.Frontend.Dockerfile =
                    IF scanned THEN Join(FrontendHome, BuiltFrontend.Dockerfile)
                    ELSE BuiltFrontend.Dockerfile
        /\ backend # Nil =>
              /\ DOMAIN result.TechStack.Backend = DOMAIN BuiltBackend
              /\ SameButDockerfile(result.TechStack.Backend, BuiltBackend)
              /\ result.TechStack.Backend.Dockerfile =
                    IF scanned THEN Join(BackendHome, BuiltBackend.Dockerfile)
                    ELSE BuiltBackend.Dockerfile

C13_Witness ==
    /\ Returned
    /\ scanned
    /\ frontend # Nil
    /\ BuiltFrontend.Dockerfile = "Dockerfile"
    /\ result.TechStack.Frontend.Dockerfile # BuiltFrontend.Dockerfile
    /\ result.TechStack.Frontend.EnvVars = BuiltFrontend.EnvVars
    /\ BuiltFrontend.EnvVars # NoEnv

RootManifests == {"package.json", "go.mod", "requirements.txt"}

NoRootManifest == \A name \in RootManifests : ~fileExists(fs, Join(rootDir, name))

\* C14: middleware detection reads the root's manifests only: a root without
\* package.json, go.mod and requirements.txt gives four false booleans,
\* whatever the subdirectories of the monorepo scan declare.
C14_RootManifestsOnly ==
    (Returned /\ NoRootManifest) => result.Middleware = NoMiddleware

C14_Witness ==
    /\ Returned
    /\ scanned
    /\ NoRootManifest
    /\ backend # Nil
    /\ backend.Language = "go"
    /\ Readable(fs, Join(rootDir, "backend/go.mod"))
    /\ ContentContains(fs[Join(rootDir, "backend/go.mod")].lines, "mongo-driver")
    /\ ~result.Middleware.MongoDB

\* C15 as claimed: a direct driver in the root package.json sets its boolean
\* whatever prisma/schema.prisma says: mongodb or mongoose gives MongoDB,
\* pg or postgres gives Postgres.
C15_DriversIgnoreSchema ==
    Returned =>
        /\ (RootHas("mongodb") \/ RootHas("mongoose")) => result.Middleware.MongoDB
        /\ (RootHas("pg") \/ RootHas("postgres")) => result.Middleware.Postgres

\* the root package.json exists and gives no dependency: it cannot be read,
\* or the line scanner finds no entry in it
BrokenRootPkg ==
    /\ fileExists(fs, RootPkg)
    /\ Readable(fs, RootPkg) => parseDependencies(fs[RootPkg].lines) = NoDeps

WithoutRootPkg == [p \in DOMAIN fs \ {RootPkg} |-> fs[p]]

RootGoMod == Join(rootDir, "go.mod")
RootRequirements == Join(rootDir, "requirements.txt")

\* C16: on an existing root Detect returns a Metadata and a nil error,
\* whichever probed files are missing, unreadable or malformed; a broken
\* package.json gives no root-level frontend and leaves the other probes as
\* they are without it: go.mod and requirements.txt detection, the
\* Dockerfile lookup and middleware detection go on.
C16_SoftMiss ==
    (Returned /\ fileExists(fs, rootDir)) =>
        /\ result # Nil
        /\ err = "nil"
        /\ BrokenRootPkg =>
              /\ ~scanned => result.TechStack.Frontend = Nil
              /\ result = Detect(WithoutRootPkg)
              /\ fileExists(fs, RootGoMod) =>
                    /\ result.TechStack.Backend # Nil
                    /\ result.TechStack.Backend.Language = "go"
                    /\ FirstPassing(result.TechStack.Backend)
              /\ (~fileExists(fs, RootGoMod) /\ fileExists(fs, RootRequirements)) =>
                    /\ result.TechStack.Backend # Nil
                    /\ result.TechStack.Backend.Language = "python"
                    /\ FirstPassing(result.TechStack.Backend)
              /\ (Readable(fs, RootGoMod)
                    /\ ContentContains(fs[RootGoMod].lines, "go.mongodb.org/mongo-driver"))
                    => result.Middleware.MongoDB
              /\ (Readable(fs, RootRequirements)
                    /\ ContentContains(fs[RootRequirements].lines, "redis"))
                    => result.Middleware.Redis

C16_Witness ==
    /\ Returned
    /\ fileExists(fs, RootPkg)
    /\ fs[RootPkg] = NoPermFile
    /\ Readable(fs, RootGoMod)
    /\ fileExists(fs, Join(rootDir, "backend/Dockerfile"))
    /\ fileExists(fs, Join(rootDir, ".env"))
    /\ ~Readable(fs, Join(rootDir, ".env"))
    /\ result # Nil
    /\ err = "nil"
    /\ result.TechStack.Frontend = Nil
    /\ result.TechStack.Backend.Dockerfile = "Dockerfile"
    /\ result.Middleware.MongoDB

\* C17: Detect is read-only: no step of a call, the monorepo scan included,
\* creates, writes, renames or deletes an entry; the tree after each step is
\* the tree before it.
C17_ReadOnly == [][fs' = fs]_vars

C17_Witness ==
    /\ Returned
    /\ scanned
    /\ frontend # Nil
    /\ backend # Nil
    /\ backend.EnvVars # NoEnv
    /\ frontend.HasDockerfile

\* C18: in every returned TechStack, root-level or of the monorepo scan,
\* HasDockerfile = true means that the reported path joined to the root is
\* an existing file whose text passes the shallow check.
C18_ReportedDockerfileExists ==
    Returned =>
        \A stack \in Stacks(result) :
            stack.HasDockerfile =>
                /\ Readable(fs, Join(rootDir, stack.Dockerfile))
                /\ PassesShallowCheck(fs[Join(rootDir, stack.Dockerfile)].lines)

C18_Witness ==
    /\ Returned
    /\ scanned
    /\ backend # Nil
    /\ result.TechStack.Backend.HasDockerfile
    /\ result.TechStack.Backend.Dockerfile = "api/Dockerfile"
    /\ Readable(fs, Join(rootDir, "api/Dockerfile"))
    /\ ~fileExists(fs, Join(rootDir, "Dockerfile"))

\* the keys of the KEY=VALUE lines of one env file
FileKeys(path) ==
    {TrimSpace(SubSeq(TrimSpace(fs[path].lines[n]), 1,
                      Index(TrimSpace(fs[path].lines[n]), "=") - 1)) :
        n \in {k \in 1..Len(fs[path].lines) :
                  LET line == TrimSpace(fs[path].lines[k])
                  IN  line # "" /\ ~HasPrefix(line, "#") /\ Index(line, "=") > 0}}

\* the keys of all the candidate env files that can be opened
CandidateKeys(home, candidates) ==
    UNION {FileKeys(Join(Join(rootDir, home), candidates[c])) :
              c \in {k \in 1..Len(candidates) :
                        Readable(fs, Join(Join(rootDir, home), candidates[k]))}}

EnvUnion(stack, home, candidates) ==
    /\ DOMAIN stack.EnvVars = {key \in CandidateKeys(home, candidates) : ~Sensitive(key)}
    /\ \A key \in DOMAIN stack.EnvVars : stack.EnvVars[key] = "[VALUE]"

CandidateDirs == {"frontend", "web", "client", "ui", "backend", "api", "server", "services"}

ManifestNames == {"package.json", "go.mod", "requirements.txt", "pyproject.toml"}

\* the relative names a sub-detector probes under its root
DetectorNames ==
    ManifestNames
        \cup {"frontend/Dockerfile", "Dockerfile", "Dockerfile.frontend",
              "backend/Dockerfile", "Dockerfile.backend", "api/Dockerfile"}
        \cup {"frontend/.env", "frontend/.env.local", ".env", ".env.local", "backend/.env"}

\* the paths a call on rootDir may probe, whatever the tree
ProbeUniverse ==
    {Join(rootDir, name) : name \in DetectorNames \cup {"prisma/schema.prisma"}}
        \cup {Join(rootDir, dir) : dir \in CandidateDirs}
        \cup {Join(Join(rootDir, dir), name) : dir \in CandidateDirs, name \in DetectorNames}

NestedManifests ==
    {Join(Join(Join(rootDir, outer), inner), name) :
        outer \in CandidateDirs, inner \in CandidateDirs, name \in ManifestNames}

\* C20: every Detect call returns, and the paths it probes lie in a set fixed
\* by the root path alone: the candidate names under the root and under the
\* eight candidate directories; no manifest of a candidate directory inside
\* a candidate directory (frontend/web/package.json) is ever probed.
C20_BoundedProbes ==
    /\ [](probed \subseteq ProbeUniverse /\ probed \cap NestedManifests = {})
    /\ <>Returned

C20_Witness ==
    /\ Returned
    /\ scanned
    /\ Readable(fs, Join(rootDir, "frontend/web/package.json"))
    /\ Readable(fs, Join(rootDir, "backend/api/go.mod"))
    /\ Join(rootDir, "frontend/package.json") \in probed
    /\ Join(rootDir, "frontend/frontend/Dockerfile") \in probed
    /\ Join(rootDir, "backend/go.mod") \in probed
    /\ Join(rootDir, "services") \in probed
    /\ result.TechStack.Backend = Nil

\* the root exists and holds no manifest and no candidate directory
EmptyRoot ==
    /\ rootDir \in DOMAIN fs
    /\ \A name \in ManifestNames \cup CandidateDirs : Join(rootDir, name) \notin DOMAIN fs

\* C21: on a root without manifest and without candidate directory Detect
\* returns type unknown, no frontend, no backend and four false middleware
\* booleans.
C21_EmptyRootUnknown ==
    (Returned /\ EmptyRoot) =>
        /\ result.Project.Type = "unknown"
        /\ result.TechStack.Frontend = Nil
        /\ result.TechStack.Backend = Nil
        /\ result.Middleware =
              [MongoDB |-> FALSE, Redis |-> FALSE, Postgres |-> FALSE, MySQL |-> FALSE]

C21_Witness ==
    /\ Returned
    /\ DOMAIN fs = {rootDir}
    /\ scanned
    /\ result.Project.Type = "unknown"
    /\ result.Project.Name = "proj"

(***************************************************************************)
(* C26: the Dockerfile flag and the Dockerfile path of a stack.            *)
(***************************************************************************)

\* C26: in every TechStack of a returned Metadata, HasDockerfile is true
\* exactly when the Dockerfile path is non-empty, for a stack found at the
\* root and for a stack found in a monorepo subdirectory alike.
C26_FlagIffPath ==
    Returned =>
        \A stack \in Stacks(result) : stack.HasDockerfile <=> stack.Dockerfile # ""

(***************************************************************************)
(* parseDependencies on its own: package.json files written one entry per  *)
(* line, their sections in every order, a section being either a scalar,   *)
(* an object with entries, or an empty object closed on its header line.   *)
(***************************************************************************)
MaxSections == 3

SectionTitles == {"name", "scripts", "dependencies", "devDependencies", "peerDependencies"}

DependencyTitles == {"dependencies", "devDependencies"}

\* the entries a section of each title holds when it is not empty
EntriesOf(title) ==
    CASE title = "scripts"          -> <<"start", "build">>
      [] title = "dependencies"     -> <<"react", "express">>
      [] title = "devDependencies"  -> <<"typescript">>
      [] title = "peerDependencies" -> <<"vue">>
      [] OTHER                      -> <<>>

SectionChoices(title) ==
    IF title = "name" THEN {[title |-> title, kind |-> "scalar", entries |-> <<>>]}
    ELSE {[title |-> title, kind |-> "object", entries |-> <<>>],
          [title |-> title, kind |-> "object", entries |-> EntriesOf(title)]}

Comma(more) == IF more THEN "," ELSE ""

\* the lines of one section; more: another section follows
SectionLines(sec, more) ==
    IF sec.kind = "scalar" THEN <<"  \"" \o sec.title \o "\": \"app\"" \o Comma(more)>>
    ELSE IF sec.entries = <<>> THEN <<"  \"" \o sec.title \o "\": {}" \o Comma(more)>>
    ELSE <<"  \"" \o sec.title \o "\": {">>
         \o [i \in 1..Len(sec.entries) |->
                "    \"" \o sec.entries[i] \o "\": \"^1.0.0\""
                     \o Comma(i < Len(sec.entries))]
         \o <<"  }" \o Comma(more)>>

RECURSIVE RenderFrom(_, _)
RenderFrom(sections, i) ==
    IF i > Len(sections) THEN <<"}">>
    ELSE SectionLines(sections[i], i < Len(sections)) \o RenderFrom(sections, i + 1)

Render(sections) == <<"{">> \o RenderFrom(sections, 1)

Layouts ==
    {secs \in UNION {[1..n -> UNION {SectionChoices(t) : t \in SectionTitles}] :
                        n \in 1..MaxSections} :
        \A i, j \in DOMAIN secs : i # j => secs[i].title # secs[j].title}

Manifests == {[sections |-> secs, lines |-> Render(secs)] : secs \in Layouts}

InitParse ==
    /\ fs = EmptyTree
    /\ pc = "off"
    /\ frontend = Nil
    /\ backend = Nil
    /\ scanned = FALSE
    /\ middleware = [MongoDB |-> FALSE, Redis |-> FALSE, Postgres |-> FALSE, MySQL |-> FALSE]
    /\ result = Nil
    /\ err = "nil"
    /\ calls = 0
    /\ earlier = <<>>
    /\ probed = {}
    /\ LoginOff
    /\ MergeOff
    /\ manifest \in Manifests
    /\ deps = NoDeps
    /\ ppc = "start"

\* the content of package.json handed to parseDependencies
ParseDependencies ==
    /\ ppc = "start"
    /\ deps' = parseDependencies(manifest.lines)
    /\ ppc' = "done"
    /\ UNCHANGED <<manifest, detectVars, loginVars, mergeVars>>

NextParse == ParseDependencies

SpecParse == InitParse /\ [][NextParse]_vars

\* the names declared inside the dependency sections of the manifest
Declared ==
    UNION {{manifest.sections[i].entries[k] : k \in DOMAIN manifest.sections[i].entries} :
              i \in {j \in DOMAIN manifest.sections :
                        manifest.sections[j].title \in DependencyTitles}}

\* C25: for a package.json written one entry per line, the keys of the map
\* parseDependencies returns are exactly the names declared inside
\* "dependencies" and "devDependencies", whatever the order of the sections
\* and also when a dependency section is an empty object closed on its
\* header line.
C25_ExactlyDeclared == ppc = "done" => DOMAIN deps = Declared

(***************************************************************************)
(* pkg/config: the Config value and its methods.  Times are whole seconds  *)
(* on the wall clock; ZeroTime is time.Time{}.                             *)
(***************************************************************************)
defaultBaseURL == "https://platform.aelf.dev/api/v1"

Default ==
    [Auth   |-> NoAuth,
     MCP    |-> [ServerURL |-> defaultBaseURL, APIToken |-> ""],
     Skills |-> [InstallDir |-> "/home/.chrono/skills", Installed |-> <<>>,
                 GitHubRepo |-> "ChronoAIProject/chrono-cli", GitHubRef |-> "main"]]

IsZero(t) == t = ZeroTime

\* IsLoggedIn satisfied by a token alone
IsLoggedIn_tokenOnly(c) == c.Auth.AccessToken # ""

IsLoggedIn(c) == c.Auth.AccessToken # "" /\ ~IsZero(c.Auth.TokenExpiry)

\* c.Auth.TokenExpiry.Before(time.Now())
IsTokenExpired(c, now) == c.Auth.TokenExpiry < now

\* Clear wiping the access token only
Clear_tokenOnly(c) == [c EXCEPT !.Auth.AccessToken = ""]

Clear(c) == [c EXCEPT !.Auth = NoAuth]

\* AuthConfig.MarshalYAML: token_expiry is left out when zero, else written
\* as RFC3339 text
MarshalAuth(a) ==
    [access_token  |-> a.AccessToken,
     refresh_token |-> a.RefreshToken,
     token_expiry  |-> IF IsZero(a.TokenExpiry) THEN [omitted |-> TRUE]
                       ELSE [omitted |-> FALSE, rfc3339 |-> a.TokenExpiry],
     user_id       |-> a.UserID,
     email         |-> a.Email]

\* yaml.Marshal(c) as Save writes it
Marshal(c) == [written |-> TRUE, auth |-> MarshalAuth(c.Auth), mcp |-> c.MCP, skills |-> c.Skills]

(***************************************************************************)
(* pkg/api: a reply is the outcome of one HTTP exchange: the transport     *)
(* failed, or a status code came back with a body.  A body is empty, is    *)
(* not JSON ("malformed"), or is a JSON array or a JSON object whose       *)
(* fields are typed values.                                                *)
(***************************************************************************)
Str(s) == [type |-> "string", str |-> s]
Num(n) == [type |-> "number", num |-> n]
Obj(fields) == [type |-> "object", obj |-> fields]

Object(fields) == [kind |-> "object", fields |-> fields]

\* encoding/json on one struct field: a missing key or a null leaves the
\* field alone, a value of another type leaves it alone and is an error
Present(fields, name) == name \in DOMAIN fields /\ fields[name].type # "null"

Mismatch(fields, name, type) == Present(fields, name) /\ fields[name].type # type

StringField(fields, name, old) ==
    IF Present(fields, name) /\ fields[name].type = "string" THEN fields[name].str ELSE old

IntField(fields, name, old) ==
    IF Present(fields, name) /\ fields[name].type = "number" THEN fields[name].num ELSE old

UnmarshalUser(fields, old) ==
    [ID    |-> StringField(fields, "id", old.ID),
     Email |-> StringField(fields, "email", old.Email),
     Name  |-> StringField(fields, "name", old.Name),
     Role  |-> StringField(fields, "role", old.Role)]

UserMismatch(fields) == \E name \in {"id", "email", "name", "role"} : Mismatch(fields, name, "string")

\* json.Unmarshal(respBody, &resp) for a DeviceFlowPollResponse
UnmarshalPoll(body, old) ==
    IF body.kind = "malformed" THEN [err |-> "syntax", val |-> old]
    ELSE IF body.kind = "array" THEN [err |-> "type", val |-> old]
    ELSE LET fields == body.fields
             userOk == Present(fields, "user") /\ fields["user"].type = "object"
         IN  [err |-> IF \/ Mismatch(fields, "status", "string")
                         \/ Mismatch(fields, "access_token", "string")
                         \/ Mismatch(fields, "expires_in", "number")
                         \/ Mismatch(fields, "user", "object")
                         \/ (userOk /\ UserMismatch(fields["user"].obj))
                      THEN "type" ELSE "nil",
              val |-> [Status      |-> StringField(fields, "status", old.Status),
                       AccessToken |-> StringField(fields, "access_token", old.AccessToken),
                       ExpiresIn   |-> IntField(fields, "expires_in", old.ExpiresIn),
                       User        |-> IF userOk
                                       THEN UnmarshalUser(fields["user"].obj, old.User)
                                       ELSE old.User]]

\* var resp DeviceFlowStartResponse; the two verification URIs are only
\* printed and are left out
NoStartResponse == [DeviceCode |-> "", UserCode |-> "", ExpiresIn |-> 0, Interval |-> 0]

\* json.Unmarshal(respBody, &resp) for a DeviceFlowStartResponse
UnmarshalStart(body, old) ==
    IF body.kind = "malformed" THEN [err |-> "syntax", val |-> old]
    ELSE IF body.kind = "array" THEN [err |-> "type", val |-> old]
    ELSE LET fields == body.fields
         IN  [err |-> IF \/ Mismatch(fields, "device_code", "string")
                         \/ Mismatch(fields, "user_code", "string")
                         \/ Mismatch(fields, "expires_in", "number")
                         \/ Mismatch(fields, "interval", "number")
                      THEN "type" ELSE "nil",
              val |-> [DeviceCode |-> StringField(fields, "device_code", old.DeviceCode),
                       UserCode   |-> StringField(fields, "user_code", old.UserCode),
                       ExpiresIn  |-> IntField(fields, "expires_in", old.ExpiresIn),
                       Interval   |-> IntField(fields, "interval", old.Interval)]]

\* Do decoding the body of an error reply into the response as well
Do_decodingErrors(rep, response, decoded) ==
    IF rep.transport = "failed"
    THEN [err |-> "failed to perform request", response |-> response]
    ELSE IF rep.code >= 400
    THEN [err |-> "API error",
          response |-> IF rep.body.kind = "empty" THEN response
                       ELSE decoded.val]
    ELSE IF rep.body.kind # "empty"
    THEN [err |-> IF decoded.err # "nil" THEN "failed to unmarshal response" ELSE "nil",
          response |-> decoded.val]
    ELSE [err |-> "nil", response |-> response]

\* Client.Do from the reply on: the error returned and the response object
\* as Do leaves it; decoded is json.Unmarshal(respBody, response)
Do(rep, response, decoded) ==
    IF rep.transport = "failed"
    THEN [err |-> "failed to perform request", response |-> response]
    ELSE IF rep.code >= 400
    THEN [err |-> "API error", response |-> response]
    ELSE IF rep.body.kind # "empty"
    THEN [err |-> IF decoded.err # "nil" THEN "failed to unmarshal response" ELSE "nil",
          response |-> decoded.val]
    ELSE [err |-> "nil", response |-> response]

StartDeviceFlow(rep) == Do(rep, NoStartResponse, UnmarshalStart(rep.body, NoStartResponse))

\* PollDeviceFlow on a Do that decodes error replies too
PollDeviceFlow_decodingErrors(rep) ==
    Do_decodingErrors(rep, NoPollResponse, UnmarshalPoll(rep.body, NoPollResponse))

PollDeviceFlow(rep) == Do(rep, NoPollResponse, UnmarshalPoll(rep.body, NoPollResponse))

(***************************************************************************)
(* cmd/login.go: one run of `login` or `logout` on the Config GetConfig    *)
(* returned.  The clock counts seconds.  The ticker delivers a tick into a *)
(* one-place channel every period; the timeout channel is ready from its   *)
(* deadline on.  An HTTP exchange takes no time on this clock.             *)
(***************************************************************************)
StartTime == 10
MaxExpiresIn == 12
MinPollInterval == 5
SlowDownStep == 5
MaxClock == StartTime + MaxExpiresIn + MinPollInterval

FutureExpiry == StartTime + 100
PastExpiry == StartTime - 5

OldAuth(expiry) ==
    [AccessToken |-> "old-token", RefreshToken |-> "old-refresh", TokenExpiry |-> expiry,
     UserID |-> "user-0", Email |-> "old@example.com"]

AuthChoices ==
    {NoAuth, OldAuth(FutureExpiry), OldAuth(PastExpiry), OldAuth(ZeroTime),
     [OldAuth(FutureExpiry) EXCEPT !.AccessToken = ""]}

CustomConfig ==
    [Auth   |-> NoAuth,
     MCP    |-> [ServerURL |-> "https://dev.example.com/api/v1", APIToken |-> "dp_token"],
     Skills |-> [InstallDir |-> "/opt/skills",
                 Installed |-> <<[Name |-> "deploy", URL |-> "https://example.com/deploy",
                                  InstalledAt |-> PastExpiry]>>,
                 GitHubRepo |-> "example/skills", GitHubRef |-> "v1"]]

Configs == {[c EXCEPT !.Auth = a] : c \in {Default, CustomConfig}, a \in AuthChoices}

IntervalChoices == {0, MinPollInterval, MinPollInterval + 2}

StartBodies ==
    {Object([name \in {"device_code", "user_code", "expires_in", "interval"} |->
                CASE name = "device_code" -> Str("device-1")
                  [] name = "user_code"   -> Str("ABCD")
                  [] name = "expires_in"  -> Num(e)
                  [] name = "interval"    -> Num(i)]) :
        e \in {0, MaxExpiresIn}, i \in IntervalChoices}

StartPath == "/auth/device/start"
PollPath == "/auth/device/poll"

StartReplies ==
    {[request |-> StartPath, transport |-> "failed", code |-> 0, body |-> EmptyBody]}
    \cup {[request |-> StartPath, transport |-> "ok", code |-> 200, body |-> b] :
             b \in StartBodies \cup {EmptyBody, [kind |-> "malformed", fields |-> NoFields]}}
    \cup {[request |-> StartPath, transport |-> "ok", code |-> 500, body |-> b] :
             b \in StartBodies}

StatusBody(status) == Object([name \in {"status"} |-> Str(status)])

TokenBody(token) ==
    Object([name \in {"access_token", "expires_in", "user"} |->
               CASE name = "access_token" -> Str(token)
                 [] name = "expires_in"   -> Num(60)
                 [] name = "user"         -> Obj([n \in {"id", "email"} |->
                                                     IF n = "id" THEN Str("user-1")
                                                     ELSE Str("new@example.com")])])

\* a pending answer whose expires_in is a string
MistypedBody ==
    Object([name \in {"status", "expires_in"} |->
               IF name = "status" THEN Str("authorization_pending") ELSE Str("soon")])

PollBodies ==
    {StatusBody(status) :
        status \in {"authorization_pending", "slow_down", "access_denied", "expired_token"}}
    \cup {TokenBody("new-token"), MistypedBody, EmptyBody,
          [kind |-> "malformed", fields |-> NoFields], [kind |-> "array", fields |-> NoFields]}

PollReplies ==
    {[request |-> PollPath, transport |-> "failed", code |-> 0, body |-> EmptyBody]}
    \cup {[request |-> PollPath, transport |-> "ok", code |-> code, body |-> b] :
             code \in {200, 202, 400, 410}, b \in PollBodies}

InitLogin ==
    /\ fs = EmptyTree
    /\ pc = "off"
    /\ frontend = Nil
    /\ backend = Nil
    /\ scanned = FALSE
    /\ middleware = [MongoDB |-> FALSE, Redis |-> FALSE, Postgres |-> FALSE, MySQL |-> FALSE]
    /\ result = Nil
    /\ err = "nil"
    /\ calls = 0
    /\ earlier = <<>>
    /\ probed = {}
    /\ ParseOff
    /\ MergeOff
    /\ loaded \in Configs
    /\ cfg = loaded
    /\ saved = IF loaded = Default THEN NotSaved ELSE Marshal(loaded)
    /\ lpc = "idle"
    /\ clock = StartTime
    /\ pollInterval = 0
    /\ ticker = NoTicker
    /\ timeout = 0
    /\ reply = NoReply
    /\ pollResp = NoPollResponse
    /\ pollErr = "nil"
    /\ outcome = "none"

\* cfg.Save(): the file is written, or one of its steps fails
Save(ok, good, bad) ==
    IF ok THEN saved' = Marshal(cfg') /\ outcome' = good
    ELSE saved' = saved /\ outcome' = bad

\* Config.Clear called on the Config
ConfigClear ==
    /\ lpc = "idle"
    /\ cfg' = Clear(cfg)
    /\ outcome' = "cleared"
    /\ lpc' = "done"
    /\ UNCHANGED <<loaded, saved, clock, pollInterval, ticker, timeout, reply, pollResp, pollErr>>
    /\ UNCHANGED <<detectVars, parseVars, mergeVars>>

RunLogout ==
    /\ lpc = "idle"
    /\ IF ~IsLoggedIn(cfg)
       THEN outcome' = "not logged in" /\ UNCHANGED <<cfg, saved>>
       ELSE /\ cfg' = Clear(cfg)
            /\ \E ok \in BOOLEAN : Save(ok, "logged out", "failed to clear credentials")
    /\ lpc' = "done"
    /\ UNCHANGED <<loaded, clock, pollInterval, ticker, timeout, reply, pollResp, pollErr>>
    /\ UNCHANGED <<detectVars, parseVars, mergeVars>>

\* the poll interval taken as the server sent it
PollIntervalOf_asSent(startResp) == startResp.Interval

\* pollInterval: the interval the server asks for, at least 5 seconds
PollIntervalOf(startResp) ==
    IF startResp.Interval < MinPollInterval THEN MinPollInterval ELSE startResp.Interval

\* runLogin up to the poll loop
LoginStart ==
    /\ lpc = "idle"
    /\ IF IsLoggedIn(cfg) /\ ~IsTokenExpired(cfg, clock)
       THEN /\ outcome' = "already logged in"
            /\ lpc' = "done"
            /\ UNCHANGED <<pollInterval, ticker, timeout, reply>>
       ELSE \E rep \in StartReplies :
               LET start == StartDeviceFlow(rep)
                   interval == PollIntervalOf(start.response)
               IN  /\ reply' = rep
                   /\ IF start.err # "nil"
                      THEN /\ outcome' = "failed to start device flow"
                           /\ lpc' = "done"
                           /\ UNCHANGED <<pollInterval, ticker, timeout>>
                      ELSE /\ pollInterval' = interval
                           /\ ticker' = [period |-> interval, next |-> clock + interval,
                                         ready |-> FALSE]
                           /\ timeout' = clock + start.response.ExpiresIn
                           /\ outcome' = "pending"
                           /\ lpc' = "polling"
    /\ UNCHANGED <<loaded, cfg, saved, clock, pollResp, pollErr>>
    /\ UNCHANGED <<detectVars, parseVars, mergeVars>>

\* a second passes while runLogin waits in the select
Tick ==
    /\ lpc = "polling"
    /\ clock < MaxClock
    /\ clock' = clock + 1
    /\ ticker' = IF clock' = ticker.next
                 THEN [ticker EXCEPT !.ready = TRUE, !.next = @ + ticker.period]
                 ELSE ticker
    /\ UNCHANGED <<loaded, cfg, saved, lpc, pollInterval, timeout, reply, pollResp, pollErr,
                   outcome>>
    /\ UNCHANGED <<detectVars, parseVars, mergeVars>>

\* case <-timeout
Timeout ==
    /\ lpc = "polling"
    /\ clock >= timeout
    /\ outcome' = "authentication timed out"
    /\ lpc' = "done"
    /\ UNCHANGED <<loaded, cfg, saved, clock, pollInterval, ticker, timeout, reply, pollResp,
                   pollErr>>
    /\ UNCHANGED <<detectVars, parseVars, mergeVars>>

\* case <-ticker.C: one poll and what runLogin does with its answer
Poll ==
    /\ lpc = "polling"
    /\ ticker.ready
    /\ \E rep \in PollReplies :
          LET poll == PollDeviceFlow(rep)
              resp == poll.response
          IN  /\ reply' = rep
              /\ pollResp' = resp
              /\ pollErr' = poll.err
              /\ IF poll.err # "nil"
                 THEN /\ IF resp.Status = "authorization_pending"
                         THEN lpc' = "polling" /\ outcome' = outcome
                         ELSE lpc' = "done" /\ outcome' = "failed to poll device flow"
                      /\ ticker' = [ticker EXCEPT !.ready = FALSE]
                      /\ UNCHANGED <<cfg, saved>>
                 ELSE IF resp.Status \in {"authorization_pending", "slow_down"}
                 THEN /\ ticker' = IF resp.Status = "slow_down"
                                   THEN [period |-> pollInterval + SlowDownStep,
                                         next |-> clock + pollInterval + SlowDownStep,
                                         ready |-> FALSE]
                                   ELSE [ticker EXCEPT !.ready = FALSE]
                      /\ lpc' = "polling"
                      /\ outcome' = outcome
                      /\ UNCHANGED <<cfg, saved>>
                 ELSE /\ cfg' = [cfg EXCEPT !.Auth.AccessToken = resp.AccessToken,
                                            !.Auth.TokenExpiry = clock + resp.ExpiresIn,
                                            !.Auth.UserID = resp.User.ID,
                                            !.Auth.Email = resp.User.Email]
                      /\ \E ok \in BOOLEAN : Save(ok, "success", "failed to save credentials")
                      /\ ticker' = [ticker EXCEPT !.ready = FALSE]
                      /\ lpc' = "done"
    /\ UNCHANGED <<loaded, clock, pollInterval, timeout>>
    /\ UNCHANGED <<detectVars, parseVars, mergeVars>>

NextLogin == ConfigClear \/ RunLogout \/ LoginStart \/ Tick \/ Timeout \/ Poll

SpecLogin == InitLogin /\ [][NextLogin]_vars

\* the clock advances while runLogin waits, and select takes a channel that
\* stays ready: Go chooses among the ready cases at random
SpecLoginFair == SpecLogin /\ WF_loginVars(Tick) /\ WF_loginVars(Timeout)

(***************************************************************************)
(* Properties of login and logout.                                         *)
(***************************************************************************)
LogoutOutcomes == {"not logged in", "logged out", "failed to clear credentials"}

\* what C22 says IsLoggedIn looks at, read off the Config as it was loaded
TokenAndExpirySet == loaded.Auth.AccessToken # "" /\ loaded.Auth.TokenExpiry # ZeroTime

\* C22: IsLoggedIn is true exactly when the access token is non-empty and the
\* expiry is not the zero time, whether or not that expiry has passed: logout
\* answers "not logged in" exactly for the other configs, login answers
\* "already logged in" only for such a config, and the Default config is not
\* logged in.
C22_LoggedInIffTokenAndExpiry ==
    /\ outcome \in LogoutOutcomes => (outcome # "not logged in" <=> TokenAndExpirySet)
    /\ outcome = "already logged in" => TokenAndExpirySet
    /\ (loaded = Default /\ outcome \in LogoutOutcomes) => outcome = "not logged in"

\* logout went through on a token whose non-zero expiry has passed
C22_Witness ==
    /\ outcome = "logged out"
    /\ loaded.Auth.AccessToken # ""
    /\ loaded.Auth.TokenExpiry = PastExpiry
    /\ PastExpiry < clock

ClearedOutcomes == {"cleared", "logged out", "failed to clear credentials"}

\* C23: after Clear every Auth field is at its zero value, so the Config is
\* not logged in whatever it held before, and its MCP and Skills sections
\* are what they were.
C23_ClearResetsAuthOnly ==
    outcome \in ClearedOutcomes =>
        /\ cfg.Auth.AccessToken = ""
        /\ cfg.Auth.RefreshToken = ""
        /\ cfg.Auth.TokenExpiry = ZeroTime
        /\ cfg.Auth.UserID = ""
        /\ cfg.Auth.Email = ""
        /\ ~IsLoggedIn(cfg)
        /\ cfg.MCP = loaded.MCP
        /\ cfg.Skills = loaded.Skills

\* Clear ran on a Config that held credentials, an API token and an
\* installed skill
C23_Witness ==
    /\ outcome = "logged out"
    /\ loaded.Auth.RefreshToken # ""
    /\ loaded.Auth.Email # ""
    /\ loaded.MCP.APIToken # ""
    /\ loaded.Skills.Installed # <<>>
    /\ cfg.Auth = NoAuth
    /\ saved = Marshal(cfg)

\* the last HTTP exchange was a poll that got a status code back
Polled == reply.request = PollPath /\ reply.transport = "ok"

WellFormed(body) == body.kind \in {"object", "array"}

\* the body is a JSON object none of whose fields has another JSON type than
\* the field of DeviceFlowPollResponse it is decoded into
DecodesAsPoll(body) ==
    /\ body.kind = "object"
    /\ \A name \in DOMAIN body.fields :
          /\ name \in {"status", "access_token"} => body.fields[name].type = "string"
          /\ name = "expires_in" => body.fields[name].type = "number"
          /\ name = "user" =>
                /\ body.fields[name].type = "object"
                /\ \A n \in DOMAIN body.fields[name].obj :
                      body.fields[name].obj[n].type = "string"

\* the response holds what the body says, field by field
FilledFrom(body, resp) ==
    /\ "status" \in DOMAIN body.fields => resp.Status = body.fields["status"].str
    /\ "access_token" \in DOMAIN body.fields =>
          resp.AccessToken = body.fields["access_token"].str
    /\ "expires_in" \in DOMAIN body.fields => resp.ExpiresIn = body.fields["expires_in"].num
    /\ "user" \in DOMAIN body.fields =>
          /\ resp.User.ID = body.fields["user"].obj["id"].str
          /\ resp.User.Email = body.fields["user"].obj["email"].str

\* what C24 says of a reply with status 400 or higher: an error, and the
\* response object as PollDeviceFlow declared it
ErrorRepliesLeaveResponse ==
    (Polled /\ reply.code >= 400) => (pollErr # "nil" /\ pollResp = NoPollResponse)

\* C24 as claimed: Do returns an error and leaves the response object alone
\* for every status of 400 or higher, so PollDeviceFlow then returns an error
\* and an empty Status; for a status below 400 with a well-formed JSON body
\* it returns nil and fills the response object.
C24_DoContract ==
    /\ ErrorRepliesLeaveResponse
    /\ (Polled /\ reply.code < 400 /\ WellFormed(reply.body)) =>
          (pollErr = "nil" /\ DecodesAsPoll(reply.body) /\ FilledFrom(reply.body, pollResp))

\* C24, amended: the same for status 400 or higher; for a status below 400
\* Do returns nil and fills the response object when the JSON body decodes
\* into the response type, and returns an error when the body is well-formed
\* JSON of another shape.
C24_DoContractTyped ==
    /\ ErrorRepliesLeaveResponse
    /\ (Polled /\ reply.code < 400 /\ DecodesAsPoll(reply.body)) =>
          (pollErr = "nil" /\ FilledFrom(reply.body, pollResp))
    /\ (Polled /\ reply.code < 400 /\ WellFormed(reply.body) /\ ~DecodesAsPoll(reply.body)) =>
          pollErr # "nil"

\* a poll answered 400 with a pending status came back as an error with an
\* empty Status
C24_Witness ==
    /\ Polled
    /\ reply.code = 400
    /\ reply.body = StatusBody("authorization_pending")
    /\ pollErr = "API error"
    /\ pollResp.Status = ""

\* the server's reply carries this status in its JSON body
Reports(rep, status) ==
    /\ rep.transport = "ok"
    /\ rep.body.kind = "object"
    /\ "status" \in DOMAIN rep.body.fields
    /\ rep.body.fields["status"] = Str(status)

\* C27: a poll for which PollDeviceFlow returned an error while the server's
\* reply reports authorization_pending does not end the login with a poll
\* failure: the loop goes on to a later poll or to the timeout.
C27_PendingErrorKeepsPolling ==
    (reply.request = PollPath /\ pollErr # "nil" /\ Reports(reply, "authorization_pending"))
        => outcome # "failed to poll device flow"

\* C28: runLogin stores credentials and reports success only for a poll
\* response that carries a non-empty access token; a response without error
\* whose status is neither authorization_pending nor slow_down and whose
\* token is empty never leaves the saved config with an empty AccessToken
\* and a non-zero TokenExpiry.
C28_SuccessNeedsToken ==
    outcome = "success" =>
        /\ pollResp.AccessToken # ""
        /\ ~(saved.auth.access_token = "" /\ ~saved.auth.token_expiry.omitted)

\* the login has left the poll loop
LoopEnded == lpc = "done" /\ ticker # NoTicker

\* the safety half of C29, for a given set of ways the loop may end
LoopSafety(endings) ==
    /\ lpc = "polling" => (pollInterval >= MinPollInterval /\ ticker.period >= MinPollInterval)
    /\ LoopEnded => outcome \in endings
    /\ outcome = "authentication timed out" => clock >= timeout

\* C29 as claimed: once in the poll loop runLogin eventually returns, with
\* success, with a poll error, or with the timeout error once ExpiresIn has
\* elapsed, whatever the server answers; the poll interval is never below
\* 5 seconds.
C29_LoginReturns ==
    /\ [](LoopSafety({"success", "failed to poll device flow", "authentication timed out"}))
    /\ (lpc = "polling") ~> (lpc = "done")

\* C29, amended: the same, the loop may also end with the error of a failed
\* save of the credentials.
C29_LoginReturnsOrSaveFails ==
    /\ [](LoopSafety({"success", "failed to save credentials", "failed to poll device flow",
                      "authentication timed out"}))
    /\ (lpc = "polling") ~> (lpc = "done")

\* the server slowed the polling down and the login ended by the timeout
C29_Witness ==
    /\ outcome = "authentication timed out"
    /\ reply.request = PollPath
    /\ Reports(reply, "slow_down")
    /\ ticker.period = pollInterval + SlowDownStep
    /\ clock >= timeout

(***************************************************************************)
(* cmd/login.go: merging the developer-platform server into an editor's    *)
(* MCP config file.  A file is missing, unreadable, not JSON ("malformed"),*)
(* a JSON array, or a JSON object: its top-level keys with their values.   *)
(* The value of "mcpServers" is an object of server entries, null, or a    *)
(* value of another type.                                                  *)
(***************************************************************************)
MaxServers == 2
MaxSettings == 2

NoKeys == [k \in {} |-> [type |-> "null"]]

JsonFile(keys) == [kind |-> "object", keys |-> keys]

Servers(entries) == [type |-> "object", obj |-> entries]

NoServers == [name \in {} |-> [type |-> "null"]]

\* the entry both merge functions write
DeveloperPlatform(serverURL, token) ==
    Obj([k \in {"url", "headers"} |->
            IF k = "url" THEN Str(serverURL \o "/mcp")
            ELSE Obj([h \in {"Authorization"} |-> Str("Bearer " \o token)])])

\* json.Unmarshal(data, &config) into struct{ MCPServers map[string]interface{} }:
\* the map read from the file, nil for a missing or null "mcpServers", and
\* the error for a body that is not a JSON object or whose "mcpServers" is
\* not an object
UnmarshalMCPConfig(content) ==
    IF content.kind \in {"malformed", "array"} THEN [err |-> "invalid", servers |-> NoServers]
    ELSE IF "mcpServers" \notin DOMAIN content.keys
            \/ content.keys["mcpServers"].type = "null"
    THEN [err |-> "nil", servers |-> NoServers]
    ELSE IF content.keys["mcpServers"].type # "object"
    THEN [err |-> "invalid", servers |-> NoServers]
    ELSE [err |-> "nil", servers |-> content.keys["mcpServers"].obj]

\* the servers map after config.MCPServers["developer-platform"] = ...
withServer(servers, serverURL, token) ==
    [name \in DOMAIN servers \cup {"developer-platform"} |->
        IF name = "developer-platform" THEN DeveloperPlatform(serverURL, token)
        ELSE servers[name]]

\* json.MarshalIndent(config, "", "  "): what the merge writes for a file of
\* this content
mergedContent(content, serverURL, token) ==
    LET read == IF content.kind \in {"missing", "unreadable"}
                THEN [err |-> "nil", servers |-> NoServers]
                ELSE UnmarshalMCPConfig(content)
        servers == IF read.err # "nil" THEN NoServers ELSE read.servers
    IN  JsonFile([k \in {"mcpServers"} |-> Servers(withServer(servers, serverURL, token))])

ServerURLs == {defaultBaseURL, "http://localhost:8080"}
Tokens == {"dp_token", ""}

OtherServer == Obj([k \in {"command"} |-> Str("npx other-server")])
StaleServer == DeveloperPlatform("https://old.example.com", "dp_old")

ServerNames == <<"developer-platform", "other", "filesystem">>

ServerValue(name) == IF name = "developer-platform" THEN StaleServer ELSE OtherServer

ServerSets ==
    {[name \in S |-> ServerValue(name)] :
        S \in {T \in SUBSET {ServerNames[i] : i \in 1..Len(ServerNames)} :
                  Cardinality(T) <= MaxServers}}

SettingNames == <<"theme", "model", "telemetry">>

SettingValue(name) == IF name = "telemetry" THEN Num(0) ELSE Str(name \o "-value")

SettingSets ==
    {[name \in S |-> SettingValue(name)] :
        S \in {T \in SUBSET {SettingNames[i] : i \in 1..Len(SettingNames)} :
                  Cardinality(T) <= MaxSettings}}

McpServersChoices ==
    {NoKeys}
    \cup {[k \in {"mcpServers"} |-> v] :
             v \in {Servers(e) : e \in ServerSets} \cup {[type |-> "null"], Str("none")}}

ConfigFiles ==
    {NoFile, [kind |-> "unreadable", keys |-> NoKeys], [kind |-> "malformed", keys |-> NoKeys],
     [kind |-> "array", keys |-> NoKeys]}
    \cup {JsonFile(settings @@ servers) : settings \in SettingSets, servers \in McpServersChoices}

InitMerge ==
    /\ fs = EmptyTree
    /\ pc = "off"
    /\ frontend = Nil
    /\ backend = Nil
    /\ scanned = FALSE
    /\ middleware = [MongoDB |-> FALSE, Redis |-> FALSE, Postgres |-> FALSE, MySQL |-> FALSE]
    /\ result = Nil
    /\ err = "nil"
    /\ calls = 0
    /\ earlier = <<>>
    /\ probed = {}
    /\ LoginOff
    /\ ParseOff
    /\ file \in ConfigFiles
    /\ original = file
    /\ mergeErr = "nil"
    /\ mpc = "start"

\* the body the two merge functions share: read, merge, marshal, write
Merge(caller) ==
    /\ mpc = "start"
    /\ \E serverURL \in ServerURLs, token \in Tokens, writes \in BOOLEAN :
          IF writes
          THEN file' = mergedContent(file, serverURL, token) /\ mergeErr' = "nil"
          ELSE file' = file /\ mergeErr' = "failed to write config file"
    /\ mpc' = caller
    /\ UNCHANGED <<original, detectVars, loginVars, parseVars>>

mergeMCPConfig == Merge("mergeMCPConfig")

mergeCursorConfig == Merge("mergeCursorConfig")

NextMerge == mergeMCPConfig \/ mergeCursorConfig

SpecMerge == InitMerge /\ [][NextMerge]_vars

\* the server entries of a file content, none when "mcpServers" is no object
EntriesIn(content) ==
    IF /\ content.kind = "object"
       /\ "mcpServers" \in DOMAIN content.keys
       /\ content.keys["mcpServers"].type = "object"
    THEN content.keys["mcpServers"].obj ELSE NoServers

TopLevelKeys(content) == IF content.kind = "object" THEN DOMAIN content.keys ELSE {}

\* C30: after a merge into an existing file of valid JSON, every entry of
\* mcpServers other than "developer-platform" and every top-level key other
\* than mcpServers is in the file written back with the value it had.
C30_OnlyDeveloperPlatformChanges ==
    (mpc # "start" /\ mergeErr = "nil" /\ original.kind \in {"object", "array"}) =>
        /\ \A name \in DOMAIN EntriesIn(original) \ {"developer-platform"} :
              /\ name \in DOMAIN EntriesIn(file)
              /\ EntriesIn(file)[name] = EntriesIn(original)[name]
        /\ \A k \in TopLevelKeys(original) \ {"mcpServers"} :
              /\ k \in TopLevelKeys(file)
              /\ file.keys[k] = original.keys[k]

====
